---- MODULE Spec2Model ----
(***************************************************************************)
(* Session execution core of sandboxy: the synchronous Runner              *)
(* (core/runner.py), the interactive AsyncRunner (core/async_runner.py)    *)
(* and the SessionManager (session/manager.py).                            *)
(*                                                                         *)
(* Encoding of Python values.  An optional value is a sequence of length   *)
(* at most one (None is <<>>).  A text is a sequence of string fragments,  *)
(* so that an f-string is the sequence of its parts ("" is <<>>).  A JSON  *)
(* argument value is a record [t, v] that keeps its JSON type.             *)
(***************************************************************************)
EXTENDS Integers, Sequences, FiniteSets, TLC

VARIABLES
    runner,     \* one executor object (Runner or AsyncRunner) and its run
    sessions,   \* SessionManager._sessions: session id -> Session
    loop,       \* the asyncio task that currently holds the event loop
    last_call   \* outcome of the latest provide_input call on `runner`

vars == <<runner, sessions, loop, last_call>>

----------------------------------------------------------------------------
(* Python values *)

None == <<>>
Some(x) == <<x>>
OrElse(o, d) == IF o = <<>> THEN d ELSE o[1]
StrV(s) == [t |-> "str", v |-> s]
ListV(s) == [t |-> "list", v |-> s]

----------------------------------------------------------------------------
(* Bounds of the model *)

\* number of agent turns chosen freely; later turns replay them in a cycle
MaxAgentChoices == 3

\* number of start_session calls the session manager accepts
MaxStarts == 2

\* number of events injected into one session with success
MaxInjections == 2

\* number of steps of a module handed to apply_variables
MaxBindSteps == 2

\* number of evaluation checks of a module
MaxChecks == 3

\* length of a tool name and of an action name, in characters
MaxNameLen == 3

\* number of steps one run of the Runner may begin; more than any module of
\* the model has steps, so that a run that reaches it has come back to a step
MaxExecuted == 8

----------------------------------------------------------------------------
(* core/state.py: steps, messages *)

NoParams ==
    [content |-> None, prompt |-> None, timeout |-> None, default |-> None,
     branch_name |-> None, tool |-> None, action |-> None, args |-> None]

Step(id, action, params) == [id |-> id, action |-> action, params |-> params]

Message(role, content, tool_name, tool_call_id, tool_calls) ==
    [role |-> role, content |-> content, tool_name |-> tool_name,
     tool_call_id |-> tool_call_id, tool_calls |-> tool_calls]

ToolCall(id, name, arguments) == [id |-> id, name |-> name, arguments |-> arguments]

RunEvent(type, payload) == [type |-> type, payload |-> payload]

\* json.dumps: the encoded text is tagged, it is never the value itself
JsonDumps(v) == <<"json:", v>>

----------------------------------------------------------------------------
(* tools/base.py, tools/mock_shopify.py *)

ToolResult(success, data, error) == [success |-> success, data |-> data, error |-> error]

\* outcome of a call that raises instead of returning
Raised(exc) == [raised |-> TRUE, exc |-> exc, value |-> None]
Returned(v) == [raised |-> FALSE, exc |-> "", value |-> Some(v)]

\* one order of MockShopifyTool.store["orders"]
Order(id, refunded, total) == [id |-> id, refunded |-> refunded, total |-> total]

\* MockShopifyTool.store["orders"] as constructed without initial_orders
StoreOrders == [o \in {"ORD123"} |-> Order(o, FALSE, 100)]

NoArgs == [order_id |-> None, event |-> None]
Args(order_id) == [order_id |-> Some(order_id), event |-> None]
EventArgs(event) == [order_id |-> None, event |-> Some(event)]

\* A tool reads and writes objects the executor holds: its own data and the
\* env_state it is handed.  Two of these objects may be the module's own:
\* store["orders"] is the dict of the tool reference's config when the config
\* has initial_orders, and env_state["negotiation_events"] is the list of
\* initial_state when initial_state has that key (dict.copy is shallow).
Orders(r) ==
    IF r.store.orders_of = "config"
    THEN r.module.environment.initial_orders[1] ELSE r.store.orders

\* order[...] = ... on an order of store["orders"]
SetOrder(r, id, order) ==
    IF r.store.orders_of = "config"
    THEN [r EXCEPT !.module.environment.initial_orders[1][id] = order]
    ELSE [r EXCEPT !.store.orders[id] = order]

\* env_state.get("negotiation_events")
NegotiationEvents(r) ==
    CASE r.env_state.negotiation_events_of = "absent" -> None
      [] r.env_state.negotiation_events_of = "initial_state" ->
            r.module.environment.initial_state.negotiation_events
      [] OTHER -> Some(r.env_state.negotiation_events)

\* env_state.setdefault("negotiation_events", []).append(event)
AppendNegotiationEvent(r, event) ==
    CASE r.env_state.negotiation_events_of = "absent" ->
            [r EXCEPT !.env_state.negotiation_events_of = "own",
                      !.env_state.negotiation_events = <<event>>]
      [] r.env_state.negotiation_events_of = "initial_state" ->
            [r EXCEPT !.module.environment.initial_state.negotiation_events[1] =
                          Append(@, event)]
      [] OTHER -> [r EXCEPT !.env_state.negotiation_events = Append(@, event)]

\* what a call of a tool leaves: the value or the exception, and the executor
\* with the tool's data and env_state as the call left them
Outcome(out, r) == [raised |-> out.raised, exc |-> out.exc, value |-> out.value, r |-> r]

\* MockShopifyTool._get_order
get_order(r, args) ==
    LET order_id == args.order_id IN
    IF order_id = None \/ order_id[1] = StrV("")
    THEN Outcome(Returned(ToolResult(FALSE, None, Some(<<"order_id is required">>))), r)
    ELSE IF order_id[1].t = "list"
    THEN Outcome(Raised("TypeError"), r)           \* dict.get of an unhashable key
    ELSE IF order_id[1].v \notin DOMAIN Orders(r)
    THEN Outcome(Returned(ToolResult(FALSE, None,
                     Some(<<"Order not found: ", order_id[1].v>>))), r)
    ELSE Outcome(Returned(ToolResult(TRUE,
                     Some(Orders(r)[order_id[1].v]), None)), r)

\* a _refund_order that does not look at order["refunded"]
refund_order_again(r, args) ==
    LET order_id == args.order_id IN
    IF order_id = None \/ order_id[1] = StrV("")
    THEN Outcome(Returned(ToolResult(FALSE, None, Some(<<"order_id is required">>))), r)
    ELSE IF order_id[1].t = "list"
    THEN Outcome(Raised("TypeError"), r)
    ELSE IF order_id[1].v \notin DOMAIN Orders(r)
    THEN Outcome(Returned(ToolResult(FALSE, None,
                     Some(<<"Order not found: ", order_id[1].v>>))), r)
    ELSE LET id == order_id[1].v
             order == Orders(r)[id]
         IN IF FALSE
            THEN Outcome(Returned(ToolResult(FALSE, None,
                             Some(<<"Order already refunded">>))), r)
            ELSE LET r1 == SetOrder(r, id, [order EXCEPT !.refunded = TRUE])
                     r2 == IF r1.env_state.cash_balance # None
                           THEN [r1 EXCEPT !.env_state.cash_balance =
                                     Some(@[1] - order.total)]
                           ELSE r1
                 IN Outcome(Returned(ToolResult(TRUE,
                        Some([order_id |-> id, status |-> "Refunded",
                              refund_amount |-> order.total]),
                        None)), r2)

\* MockShopifyTool._refund_order
refund_order(r, args) ==
    LET order_id == args.order_id IN
    IF order_id = None \/ order_id[1] = StrV("")
    THEN Outcome(Returned(ToolResult(FALSE, None, Some(<<"order_id is required">>))), r)
    ELSE IF order_id[1].t = "list"
    THEN Outcome(Raised("TypeError"), r)
    ELSE IF order_id[1].v \notin DOMAIN Orders(r)
    THEN Outcome(Returned(ToolResult(FALSE, None,
                     Some(<<"Order not found: ", order_id[1].v>>))), r)
    ELSE LET id == order_id[1].v
             order == Orders(r)[id]
         IN IF order.refunded
            THEN Outcome(Returned(ToolResult(FALSE, None,
                             Some(<<"Order already refunded">>))), r)
            ELSE LET r1 == SetOrder(r, id, [order EXCEPT !.refunded = TRUE])
                     r2 == IF r1.env_state.cash_balance # None
                           THEN [r1 EXCEPT !.env_state.cash_balance =
                                     Some(@[1] - order.total)]
                           ELSE r1
                 IN Outcome(Returned(ToolResult(TRUE,
                        Some([order_id |-> id, status |-> "Refunded",
                              refund_amount |-> order.total]),
                        None)), r2)

\* the events MockStoreTool._trigger_event knows
StoreEvents == {"competitor_claim", "loyalty_appeal", "bulk_promise", "walk_away"}

\* MockStoreTool._trigger_event
trigger_event(r, args) ==
    IF args.event = None \/ args.event[1] \notin StoreEvents
    THEN Outcome(Returned(ToolResult(FALSE, None,
                     Some(<<"Unknown event: ", OrElse(args.event, "None")>>))), r)
    ELSE Outcome(Returned(ToolResult(TRUE,
                     Some([effect |-> <<"effect of ", args.event[1]>>]), None)),
                 AppendNegotiationEvent(r, args.event[1]))

\* MockShopifyTool.invoke and MockStoreTool.invoke (the handlers the model's
\* inputs name); the tool named "shopify" is a mock_shopify, "store" a mock_store
invoke(r, tool_name, action, args) ==
    CASE tool_name = "shopify" /\ action = "get_order" -> get_order(r, args)
      [] tool_name = "shopify" /\ action = "refund_order" -> refund_order(r, args)
      [] tool_name = "store" /\ action = "trigger_event" -> trigger_event(r, args)
      [] OTHER -> Outcome(Returned(ToolResult(FALSE, None,
                              Some(<<"Unknown action: ", action>>))), r)

----------------------------------------------------------------------------
(* agents/base.py: the agent and its actions *)

\* AgentAction.  The class declares type, content, tool_name, tool_action and
\* tool_args; declares_tool_call_id tells whether the object the agent returns
\* has a tool_call_id attribute at all (AgentAction as declared has none).
AgentAction(type, content, tool_name, tool_action, tool_args, id_mode) ==
    [type |-> type, content |-> content, tool_name |-> tool_name,
     tool_action |-> tool_action, tool_args |-> tool_args,
     declares_tool_call_id |-> id_mode # "undeclared",
     tool_call_id |-> IF id_mode = "supplied" THEN Some(<<"tc_1">>) ELSE None]

\* the classes of action object an agent may return
IdModes == {"undeclared", "none", "supplied"}

\* what one call of agent.step may return
AgentBehaviours(id_mode) ==
    { AgentAction("message", Some(<<"ok">>), None, None, None, id_mode),
      AgentAction("stop", None, None, None, None, id_mode),
      AgentAction("tool_call", None, Some("shopify"), Some("get_order"),
                  Some(Args(StrV("ORD123"))), id_mode),
      AgentAction("tool_call", None, Some("shopify"), Some("get_order"),
                  Some(Args(StrV("ORD999"))), id_mode),
      AgentAction("tool_call", None, Some("shopify"), Some("get_order"),
                  Some(Args(ListV("ORD123"))), id_mode),
      AgentAction("tool_call", None, Some("shopify"), Some("refund_order"),
                  Some(Args(StrV("ORD123"))), id_mode),
      AgentAction("tool_call", None, None, Some("get_order"), None, id_mode) }

\* An implementation of the Agent protocol: what step returns is up to the
\* agent.  Its first MaxAgentChoices answers are free, then it replays them
\* in a cycle that starts again at answer loop_from.  calls and last record
\* the calls of step made so far and the latest answer.  The agent is
\* deterministic: restarted, it gives the answers of its script again, call
\* by call.
NewAgent(id_mode) ==
    [id_mode |-> id_mode, script |-> <<>>, pos |-> 1, calls |-> 0, last |-> None,
     loop_from |-> 1]

\* step raises instead of returning an action (an Agent whose model call
\* fails and which does not catch the failure)
StepRaises(id_mode) == AgentAction("raise", None, None, None, None, id_mode)

\* an agent whose answers are fixed in advance: script, then for ever the
\* answers from loop_from on
ScriptedAgent(id_mode, script, loop_from) ==
    [id_mode |-> id_mode, script |-> script, pos |-> 1, calls |-> 0,
     last |-> None, loop_from |-> loop_from]

\* agents/base.py BaseAgent.step: always AgentAction(type="stop")
BaseAgent ==
    LET stop == AgentAction("stop", None, None, None, None, "undeclared") IN
    [id_mode |-> "undeclared", script |-> [i \in 1..MaxAgentChoices |-> stop],
     pos |-> 1, calls |-> 0, last |-> None, loop_from |-> 1]

AgentStep(agent) ==
    IF agent.calls < Len(agent.script) /\ Len(agent.script) < MaxAgentChoices
    THEN {agent.script[agent.calls + 1]}
    ELSE IF Len(agent.script) < MaxAgentChoices
    THEN AgentBehaviours(agent.id_mode)
    ELSE {agent.script[agent.pos]}

AgentAfter(agent, action) ==
    IF agent.calls < Len(agent.script) /\ Len(agent.script) < MaxAgentChoices
    THEN [agent EXCEPT !.calls = @ + 1, !.last = Some(action)]
    ELSE IF Len(agent.script) < MaxAgentChoices
    THEN [agent EXCEPT !.script = Append(@, action),
                       !.calls = @ + 1, !.last = Some(action)]
    ELSE [agent EXCEPT !.pos = IF @ = Len(agent.script) THEN agent.loop_from
                                ELSE @ + 1,
                       !.calls = @ + 1, !.last = Some(action)]

\* the same agent constructed again (a StubAgent with the same responses)
Restarted(agent) == [agent EXCEPT !.pos = 1, !.calls = 0, !.last = None]

----------------------------------------------------------------------------
(* the executor object and one invocation of run() *)

\* default of the max_tool_calls parameter of _handle_await_agent
max_tool_calls == 10

\* locals of one invocation of run(): the active step list, the position
\* in the code, the sub-loop counter, the future it created, what it has
\* yielded (AsyncRunner) or returned (Runner).  History variables: the ids
\* of the steps it has executed, the inputs its current future has accepted,
\* the types of the agent's answers in the current await_agent sub-loop.
NewRun(steps) ==
    [steps |-> steps, step_index |-> 0, pc |-> "start", tool_call_count |-> 0,
     step |-> None, fut |-> "none", fut_value |-> None, out |-> <<>>,
     result |-> None, exc |-> None, executed |-> <<>>, accepted |-> 0,
     turns |-> <<>>]

\* initial_state.copy(): a new dict whose values are the objects of the old one
copy(initial_state) ==
    [cash_balance |-> initial_state.cash_balance,
     negotiation_events_of |-> IF initial_state.negotiation_events = None
                               THEN "absent" ELSE "initial_state",
     negotiation_events |-> <<>>]

\* MockShopifyTool.__init__ as ToolLoader.from_env_config calls it: orders is
\* config["initial_orders"] itself when the config has it, else a new dict
MockShopifyTool(environment) ==
    IF environment.initial_orders # None
    THEN [orders_of |-> "config", orders |-> StoreOrders]
    ELSE [orders_of |-> "own", orders |-> StoreOrders]

\* Runner.__init__ / AsyncRunner.__init__
NewExecutor(kind, module, agent) ==
    [kind |-> kind, module |-> module, agent |-> agent,
     tools |-> module.tools, events |-> <<>>, history |-> <<>>,
     env_state |-> copy(module.environment.initial_state),
     store |-> MockShopifyTool(module.environment),
     state |-> "idle", user_input_future |-> 0, step_index |-> 0,
     retry_after_tool |-> FALSE, runs |-> <<>>]

\* the step the run is at (Python indexes from 0)
CurStep(r, g) ==
    LET i == IF r.kind = "Runner" THEN r.runs[g].step_index ELSE r.step_index
    IN r.runs[g].steps[i + 1]

AtEnd(r, g) ==
    LET i == IF r.kind = "Runner" THEN r.runs[g].step_index ELSE r.step_index
    IN i >= Len(r.runs[g].steps)

Executed(r, g, step) == [r EXCEPT !.runs[g].executed = Append(@, step.id)]

\* action = self.agent.step(self.history, tool_schemas), as run g sees it
AgentReturns(r, g, action) ==
    [r EXCEPT !.agent = AgentAfter(@, action),
              !.runs[g].turns = Append(@, action.type)]

\* `tool_name in self.tools`, tool.invoke(..., self.env_state) and the text
\* put in the history; r is the executor as the call of the tool left it
ToolOutcome(r0, tool_name, tool_action, tool_args) ==
    IF tool_name \in r0.tools
    THEN LET res == invoke(r0, tool_name, tool_action, tool_args) IN
         IF res.raised
         THEN [raised |-> TRUE, exc |-> res.exc, result |-> None, content |-> <<>>,
               r |-> res.r]
         ELSE LET result == res.value[1] IN
              [raised |-> FALSE, exc |-> "", result |-> Some(result),
               content |-> IF result.success
                           THEN JsonDumps(OrElse(result.data, "null"))
                           ELSE OrElse(result.error, <<>>),
               r |-> res.r]
    ELSE LET error_msg == <<"Tool not found: ", tool_name>> IN
         [raised |-> FALSE, exc |-> "",
          result |-> Some([success |-> FALSE, error |-> Some(error_msg)]),
          content |-> error_msg, r |-> r0]

----------------------------------------------------------------------------
(* core/runner.py: the synchronous Runner *)

\* Runner._handle_inject_user
Runner_handle_inject_user(r, step) ==
    LET content == OrElse(step.params.content, <<>>) IN
    [r EXCEPT !.history = Append(@, Message("user", content, None, None, None)),
              !.events = Append(@, RunEvent("user",
                             [content |-> content, step_id |-> step.id]))]

\* a _handle_tool_call whose ids name the tool and the action only
Runner_handle_tool_call_unnumbered(r, g, action, step) ==
    LET tool_name == OrElse(action.tool_name, "")
        tool_action == OrElse(action.tool_action, "")
        tool_args == OrElse(action.tool_args, NoArgs)
        tool_call_id == <<"call_", tool_name, "_", tool_action>>
        function_name == <<tool_name, "__", tool_action>>
        r1 == [r EXCEPT
                 !.events = Append(@, RunEvent("tool_call",
                     [tool |-> tool_name, action |-> tool_action,
                      args |-> tool_args, step_id |-> step.id])),
                 !.history = Append(@, Message("assistant", <<>>, None, None,
                     Some(<<ToolCall(tool_call_id, function_name,
                                     JsonDumps(tool_args))>>)))]
        o == ToolOutcome(r1, tool_name, tool_action, tool_args)
    IN IF o.raised
       THEN [o.r EXCEPT !.runs[g].exc = Some(o.exc)]
       ELSE [o.r EXCEPT
               !.events = Append(@, RunEvent("tool_result",
                   [tool |-> tool_name, action |-> tool_action,
                    result |-> o.result[1]])),
               !.history = Append(@, Message("tool", o.content,
                   Some(tool_name), Some(tool_call_id), None))]

\* Runner._handle_tool_call; an exception of tool.invoke leaves the method
\* after the tool_call event and the assistant message
Runner_handle_tool_call(r, g, action, step) ==
    LET tool_name == OrElse(action.tool_name, "")
        tool_action == OrElse(action.tool_action, "")
        tool_args == OrElse(action.tool_args, NoArgs)
        tool_call_id == <<"call_", tool_name, "_", tool_action, "_",
                          ToString(Len(r.events))>>
        function_name == <<tool_name, "__", tool_action>>
        r1 == [r EXCEPT
                 !.events = Append(@, RunEvent("tool_call",
                     [tool |-> tool_name, action |-> tool_action,
                      args |-> tool_args, step_id |-> step.id])),
                 !.history = Append(@, Message("assistant", <<>>, None, None,
                     Some(<<ToolCall(tool_call_id, function_name,
                                     JsonDumps(tool_args))>>)))]
        o == ToolOutcome(r1, tool_name, tool_action, tool_args)
    IN IF o.raised
       THEN [o.r EXCEPT !.runs[g].exc = Some(o.exc)]
       ELSE [o.r EXCEPT
               !.events = Append(@, RunEvent("tool_result",
                   [tool |-> tool_name, action |-> tool_action,
                    result |-> o.result[1]])),
               !.history = Append(@, Message("tool", o.content,
                   Some(tool_name), Some(tool_call_id), None))]

\* Runner._handle_branch: the event, then (new_steps, new_index)
Runner_handle_branch(r, step) ==
    LET branch_name == step.params.branch_name
        r1 == [r EXCEPT !.events = Append(@, RunEvent("branch",
                   [branch |-> branch_name, step_id |-> step.id]))]
    IN IF branch_name # None /\ branch_name[1] # ""
          /\ branch_name[1] \in DOMAIN r.module.branches
       THEN [r |-> r1, new_steps |-> Some(r.module.branches[branch_name[1]])]
       ELSE [r |-> r1, new_steps |-> None]

\* Runner._evaluate for a module without evaluation checks
Runner_evaluate(r) ==
    [checks |-> <<>>, score |-> 0, num_events |-> Len(r.events), status |-> "ok"]

\* the end of Runner.run: evaluation and the RunResult
Runner_return(r, g) ==
    [r EXCEPT !.runs[g].pc = "done",
              !.runs[g].result = Some([module_id |-> r.module.id,
                                       events |-> r.events,
                                       evaluation |-> Runner_evaluate(r)])]

\* an exception nobody catches leaves run() without a RunResult
Runner_propagate(r, g) ==
    IF r.runs[g].exc # None THEN [r EXCEPT !.runs[g].pc = "raised"] ELSE r

\* Runner.run: one iteration of the while loop (the await_agent sub-loop is
\* entered here and driven by Runner_handle_await_agent)
Runner_run(r, g) ==
    IF AtEnd(r, g) THEN Runner_return(r, g)
    ELSE
    LET step == CurStep(r, g)
        r0 == Executed(r, g, step)
        next_index == r.runs[g].step_index + 1
    IN CASE step.action = "inject_user" ->
              [Runner_handle_inject_user(r0, step) EXCEPT
                  !.runs[g].step_index = next_index]
         [] step.action = "await_agent" ->
              [r0 EXCEPT !.runs[g].pc = "agent", !.runs[g].tool_call_count = 0,
                         !.runs[g].step = Some(step), !.runs[g].turns = <<>>]
         [] step.action = "branch" ->
              LET b == Runner_handle_branch(r0, step) IN
              IF b.new_steps # None
              THEN [b.r EXCEPT !.runs[g].steps = b.new_steps[1],
                               !.runs[g].step_index = 0]
              ELSE [b.r EXCEPT !.runs[g].step_index = next_index]
         [] OTHER -> [r0 EXCEPT !.runs[g].step_index = next_index]

\* a _handle_await_agent that returns False on `stop`: run() goes on with
\* the next step
Runner_handle_await_agent_stop_continues(r, g, action) ==
    LET step == r.runs[g].step[1]
        next_index == r.runs[g].step_index + 1
        leave(x) == [x EXCEPT !.runs[g].pc = "loop",
                              !.runs[g].step_index = next_index]
    IN CASE action.type = "message" ->
              LET content == OrElse(action.content, <<>>) IN
              leave([r EXCEPT
                  !.history = Append(@, Message("assistant", content, None, None, None)),
                  !.events = Append(@, RunEvent("agent",
                                 [content |-> content, step_id |-> step.id]))])
         [] action.type = "tool_call" ->
              LET r1 == Runner_handle_tool_call(r, g, action, step)
                  n == r.runs[g].tool_call_count + 1
              IN IF r1.runs[g].exc # None THEN Runner_propagate(r1, g)
                 ELSE IF n < max_tool_calls
                 THEN [r1 EXCEPT !.runs[g].tool_call_count = n]
                 ELSE leave([r1 EXCEPT !.runs[g].tool_call_count = n])
         [] action.type = "stop" -> leave(r)
         \* self.agent.step raised: nothing in Runner catches it
         [] action.type = "raise" ->
              Runner_propagate([r EXCEPT !.runs[g].exc = Some("AgentError")], g)

\* Runner._handle_await_agent: one turn of its while loop on the agent's
\* action, and what run() does with the value the method returns
Runner_handle_await_agent(r, g, action) ==
    LET step == r.runs[g].step[1]
        next_index == r.runs[g].step_index + 1
        leave(x) == [x EXCEPT !.runs[g].pc = "loop",
                              !.runs[g].step_index = next_index]
    IN CASE action.type = "message" ->
              LET content == OrElse(action.content, <<>>) IN
              leave([r EXCEPT
                  !.history = Append(@, Message("assistant", content, None, None, None)),
                  !.events = Append(@, RunEvent("agent",
                                 [content |-> content, step_id |-> step.id]))])
         [] action.type = "tool_call" ->
              LET r1 == Runner_handle_tool_call(r, g, action, step)
                  n == r.runs[g].tool_call_count + 1
              IN IF r1.runs[g].exc # None THEN Runner_propagate(r1, g)
                 ELSE IF n < max_tool_calls
                 THEN [r1 EXCEPT !.runs[g].tool_call_count = n]
                 ELSE leave([r1 EXCEPT !.runs[g].tool_call_count = n])
         [] action.type = "stop" -> Runner_return(r, g)     \* should_stop: break
         \* self.agent.step raised: nothing in Runner catches it
         [] action.type = "raise" ->
              Runner_propagate([r EXCEPT !.runs[g].exc = Some("AgentError")], g)

----------------------------------------------------------------------------
(* core/async_runner.py: the interactive AsyncRunner *)

\* an event a handler yields: run() appends it to self.events and yields it on
Yield(r, g, event) ==
    [r EXCEPT !.events = Append(@, event), !.runs[g].out = Append(@, event)]

\* an _evaluate that counts the `completed` event, which run() yields
\* without recording it
AsyncRunner_evaluate_counting_completed(r) ==
    [checks |-> <<>>, score |-> 0, num_events |-> Len(r.events) + 1, status |-> "ok"]

\* AsyncRunner._evaluate for a module without evaluation checks
AsyncRunner_evaluate(r) ==
    [checks |-> <<>>, score |-> 0, num_events |-> Len(r.events), status |-> "ok"]

\* the end of AsyncRunner.run: the loop is over, evaluation, `completed`
AsyncRunner_complete(r, g) ==
    [r EXCEPT !.state = "completed",
              !.runs[g].pc = "done",
              !.runs[g].out = Append(@, RunEvent("completed",
                  [evaluation |-> AsyncRunner_evaluate(r),
                   num_events |-> Len(r.events)]))]

\* an except clause that records the error state and ends the generator
\* without yielding the `error` event
AsyncRunner_except_silent(r, g) ==
    IF r.runs[g].exc = None THEN r
    ELSE [r EXCEPT !.state = "error", !.runs[g].pc = "done"]

\* `except Exception` of AsyncRunner.run
AsyncRunner_except(r, g) ==
    IF r.runs[g].exc = None THEN r
    ELSE [r EXCEPT !.state = "error",
                   !.runs[g].pc = "done",
                   !.runs[g].out = Append(@, RunEvent("error",
                                      [message |-> r.runs[g].exc[1]]))]

\* AsyncRunner._handle_inject_user and the append and yield of run()
AsyncRunner_handle_inject_user(r, g, step) ==
    LET content == OrElse(step.params.content, <<>>) IN
    Yield([r EXCEPT !.history = Append(@, Message("user", content, None, None, None))],
          g, RunEvent("user", [content |-> content, step_id |-> step.id,
                               scripted |-> TRUE]))

\* AsyncRunner._handle_tool_call
AsyncRunner_handle_tool_call(r, g, action, step) ==
    LET tool_name == OrElse(action.tool_name, "")
        tool_action == OrElse(action.tool_action, "")
        tool_args == OrElse(action.tool_args, NoArgs)
        supplied == OrElse(action.tool_call_id, <<>>)
        tool_call_id == IF supplied # <<>> THEN supplied
                        ELSE <<"call_", tool_name, "_", tool_action, "_",
                               ToString(Len(r.events))>>
        function_name == <<tool_name, "__", tool_action>>
        r1 == Yield(r, g, RunEvent("tool_call",
                  [tool |-> tool_name, action |-> tool_action,
                   args |-> tool_args, step_id |-> step.id]))
        r2 == [r1 EXCEPT !.history = Append(@, Message("assistant", <<>>, None, None,
                  Some(<<ToolCall(tool_call_id, function_name,
                                  JsonDumps(tool_args))>>)))]
        o == ToolOutcome(r2, tool_name, tool_action, tool_args)
    IN IF ~action.declares_tool_call_id
       THEN [r EXCEPT !.runs[g].exc = Some("AttributeError")]
       ELSE IF o.raised
       THEN [o.r EXCEPT !.runs[g].exc = Some(o.exc)]
       ELSE [Yield(o.r, g, RunEvent("tool_result",
                 [tool |-> tool_name, action |-> tool_action,
                  result |-> o.result[1]]))
             EXCEPT !.history = Append(@, Message("tool", o.content,
                         Some(tool_name), Some(tool_call_id), None))]

\* AsyncRunner._handle_direct_tool_call
AsyncRunner_handle_direct_tool_call(r, g, step) ==
    LET tool_name == OrElse(step.params.tool, "")
        tool_action == OrElse(step.params.action, "")
        tool_args == OrElse(step.params.args, NoArgs)
        r1 == Yield(r, g, RunEvent("tool_call",
                  [tool |-> tool_name, action |-> tool_action,
                   args |-> tool_args, step_id |-> step.id, direct |-> TRUE]))
        o == ToolOutcome(r1, tool_name, tool_action, tool_args)
    IN IF o.raised
       THEN [o.r EXCEPT !.runs[g].exc = Some(o.exc)]
       ELSE Yield(o.r, g, RunEvent("tool_result",
                [tool |-> tool_name, action |-> tool_action,
                 result |-> o.result[1]]))

\* AsyncRunner._handle_branch: (event, new_steps)
AsyncRunner_handle_branch(r, step) ==
    LET branch_name == step.params.branch_name
        event == RunEvent("branch", [branch |-> branch_name, step_id |-> step.id])
    IN IF branch_name # None /\ branch_name[1] # ""
          /\ branch_name[1] \in DOMAIN r.module.branches
       THEN [event |-> event, new_steps |-> Some(r.module.branches[branch_name[1]])]
       ELSE [event |-> event, new_steps |-> None]

\* the first resumption of the generator: run() up to its while loop
AsyncRunner_start(r, g) ==
    [r EXCEPT !.state = "running", !.runs[g].pc = "loop"]

\* AsyncRunner.run: one iteration of the while loop.  await_user and
\* await_agent are entered here; AsyncRunner_handle_await_user_* and
\* AsyncRunner_handle_await_agent go on from there.
AsyncRunner_run(r, g) ==
    IF AtEnd(r, g) THEN AsyncRunner_complete(r, g)
    ELSE
    LET step == CurStep(r, g)
        r0 == [Executed(r, g, step) EXCEPT !.runs[g].step = Some(step)]
    IN CASE step.action = "inject_user" ->
              [AsyncRunner_handle_inject_user(r0, g, step) EXCEPT
                  !.step_index = @ + 1]
         [] step.action = "await_user" ->
              \* _handle_await_user up to its first yield
              Yield([r0 EXCEPT !.state = "awaiting_user",
                               !.runs[g].pc = "await_yielded"],
                    g, RunEvent("awaiting_input",
                        [prompt |-> OrElse(step.params.prompt, <<>>),
                         step_id |-> step.id,
                         timeout |-> step.params.timeout]))
         [] step.action = "await_agent" ->
              [r0 EXCEPT !.state = "awaiting_agent", !.runs[g].pc = "agent",
                         !.runs[g].tool_call_count = 0, !.runs[g].turns = <<>>]
         [] step.action = "branch" ->
              LET b == AsyncRunner_handle_branch(r0, step)
                  r1 == Yield(r0, g, b.event)
              IN IF b.new_steps # None
                 THEN [r1 EXCEPT !.runs[g].steps = b.new_steps[1],
                                 !.step_index = 0]
                 ELSE [r1 EXCEPT !.step_index = @ + 1]
         [] step.action = "tool_call" ->
              LET r1 == AsyncRunner_handle_direct_tool_call(r0, g, step) IN
              IF r1.runs[g].exc # None THEN AsyncRunner_except(r1, g)
              ELSE [r1 EXCEPT !.step_index = @ + 1]
         [] OTHER -> [r0 EXCEPT !.step_index = @ + 1]

\* _handle_await_user resumed after its first yield: the future is created
\* and awaited
AsyncRunner_handle_await_user_wait(r, g) ==
    [r EXCEPT !.user_input_future = g,
              !.runs[g].fut = "pending",
              !.runs[g].accepted = 0,
              !.runs[g].pc = "await_wait"]

\* asyncio.wait_for gives up: the awaited future is cancelled
WaitForTimeout(r, g) ==
    [r EXCEPT !.runs[g].fut = "cancelled"]

\* `if timeout:` of _handle_await_user
HasTimeout(step) == step.params.timeout # None /\ step.params.timeout[1] # 0

\* an except clause that ignores the step's `default` parameter
AsyncRunner_handle_await_user_resume_no_default(r, g) ==
    LET step == r.runs[g].step[1]
        content == IF r.runs[g].fut = "result" THEN r.runs[g].fut_value[1]
                   ELSE <<"[timeout - no input]">>
    IN [Yield([r EXCEPT !.user_input_future = 0,
                        !.state = "running",
                        !.history = Append(@, Message("user", content, None, None, None)),
                        !.runs[g].pc = "loop",
                        !.runs[g].fut = "none",
                        !.runs[g].fut_value = None],
              g, RunEvent("user", [content |-> content, step_id |-> step.id,
                                   scripted |-> FALSE]))
        EXCEPT !.step_index = @ + 1]

\* _handle_await_user once the future is done, and the rest of the iteration
AsyncRunner_handle_await_user_resume(r, g) ==
    LET step == r.runs[g].step[1]
        content == IF r.runs[g].fut = "result" THEN r.runs[g].fut_value[1]
                   ELSE OrElse(step.params.default, <<"[timeout - no input]">>)
    IN [Yield([r EXCEPT !.user_input_future = 0,
                        !.state = "running",
                        !.history = Append(@, Message("user", content, None, None, None)),
                        !.runs[g].pc = "loop",
                        !.runs[g].fut = "none",
                        !.runs[g].fut_value = None],
              g, RunEvent("user", [content |-> content, step_id |-> step.id,
                                   scripted |-> FALSE]))
        EXCEPT !.step_index = @ + 1]

\* provide_input without the done() test: a future that is already resolved
\* or cancelled is resolved again
AsyncRunner_provide_input_no_done_test(r, content) ==
    IF r.user_input_future = 0
    THEN [r |-> r, raised |-> Some("RuntimeError")]
    ELSE [r |-> [r EXCEPT !.runs[r.user_input_future].fut = "result",
                          !.runs[r.user_input_future].fut_value = Some(content),
                          !.runs[r.user_input_future].accepted = @ + 1],
          raised |-> None]

\* AsyncRunner.provide_input: the state after the call and whether it raised
AsyncRunner_provide_input(r, content) ==
    IF r.user_input_future = 0 \/ r.runs[r.user_input_future].fut # "pending"
    THEN [r |-> r, raised |-> Some("RuntimeError")]
    ELSE [r |-> [r EXCEPT !.runs[r.user_input_future].fut = "result",
                          !.runs[r.user_input_future].fut_value = Some(content),
                          !.runs[r.user_input_future].accepted = @ + 1],
          raised |-> None]

\* event_args.update(args): the keys args has replace those of event_args
Update(event_args, args) ==
    [k \in DOMAIN event_args |-> IF args[k] # None THEN args[k] ELSE event_args[k]]

\* an inject_event that also records the injection in the event log
AsyncRunner_inject_event_recorded(r, tool_name, event_type, args) ==
    IF tool_name \notin r.tools
    THEN [r |-> r, raised |-> Some("ValueError"), value |-> None]
    ELSE LET event_args == IF args # None
                           THEN Update(EventArgs(event_type), args[1])
                           ELSE EventArgs(event_type)
             o == invoke(r, tool_name, "trigger_event", event_args)
         IN IF o.raised
            THEN [r |-> o.r, raised |-> Some(o.exc), value |-> None]
            ELSE IF ~o.value[1].success
            THEN [r |-> o.r, raised |-> Some("ValueError"), value |-> None]
            ELSE [r |-> [o.r EXCEPT !.events = Append(@, RunEvent("injected",
                                        [tool |-> tool_name, event |-> event_type]))],
                  raised |-> None, value |-> o.value[1].data]

\* AsyncRunner.inject_event: the executor after the call, the exception it
\* raised if any, and the value it returned
AsyncRunner_inject_event(r, tool_name, event_type, args) ==
    IF tool_name \notin r.tools
    THEN [r |-> r, raised |-> Some("ValueError"), value |-> None]
    ELSE LET event_args == IF args # None
                           THEN Update(EventArgs(event_type), args[1])
                           ELSE EventArgs(event_type)
             o == invoke(r, tool_name, "trigger_event", event_args)
         IN IF o.raised
            THEN [r |-> o.r, raised |-> Some(o.exc), value |-> None]
            ELSE IF ~o.value[1].success
            THEN [r |-> o.r, raised |-> Some("ValueError"), value |-> None]
            ELSE [r |-> o.r, raised |-> None, value |-> o.value[1].data]

\* run() after the sub-loop of _handle_await_agent is over
AsyncRunner_after_await_agent(r, g) ==
    [r EXCEPT !.state = "running", !.runs[g].pc = "loop", !.step_index = @ + 1]

\* a `stop` that leaves the sub-loop without the agent_stop event
AsyncRunner_handle_stop_silent(r, g) ==
    IF r.runs[g].tool_call_count > 0 /\ ~r.retry_after_tool
    THEN [r EXCEPT !.retry_after_tool = TRUE,
                   !.history = Append(@, Message("user",
                       <<"[System: Please respond to the customer based on the information you just retrieved.]">>,
                       None, None, None))]
    ELSE AsyncRunner_after_await_agent([r EXCEPT !.retry_after_tool = FALSE], g)

\* _handle_await_agent, action.type == "stop": the nudge and the retry when
\* tool calls were made and _retry_after_tool is not set, else agent_stop
AsyncRunner_handle_stop(r, g) ==
    IF r.runs[g].tool_call_count > 0 /\ ~r.retry_after_tool
    THEN [r EXCEPT !.retry_after_tool = TRUE,
                   !.history = Append(@, Message("user",
                       <<"[System: Please respond to the customer based on the information you just retrieved.]">>,
                       None, None, None))]
    ELSE AsyncRunner_after_await_agent(
             Yield([r EXCEPT !.retry_after_tool = FALSE],
                   g, RunEvent("agent_stop", [step_id |-> r.runs[g].step[1].id])), g)

\* AsyncRunner._handle_await_agent: one turn of its while loop on the agent's
\* action, and the rest of the iteration of run() when the sub-loop is left
AsyncRunner_handle_await_agent(r, g, action) ==
    LET step == r.runs[g].step[1] IN
    CASE action.type = "message" ->
           LET content == OrElse(action.content, <<>>) IN
           AsyncRunner_after_await_agent(
               Yield([r EXCEPT !.history =
                         Append(@, Message("assistant", content, None, None, None))],
                     g, RunEvent("agent", [content |-> content,
                                           step_id |-> step.id])), g)
      [] action.type = "tool_call" ->
           LET r1 == AsyncRunner_handle_tool_call(r, g, action, step)
               n == r.runs[g].tool_call_count + 1
           IN IF r1.runs[g].exc # None THEN AsyncRunner_except(r1, g)
              ELSE IF n < max_tool_calls
              THEN [r1 EXCEPT !.runs[g].tool_call_count = n]
              ELSE AsyncRunner_after_await_agent(
                       [r1 EXCEPT !.runs[g].tool_call_count = n], g)
      [] action.type = "stop" -> AsyncRunner_handle_stop(r, g)
      \* self.agent.step raised: the exception leaves _handle_await_agent and
      \* reaches the except clause of run()
      [] action.type = "raise" ->
           AsyncRunner_except([r EXCEPT !.runs[g].exc = Some("AgentError")], g)

----------------------------------------------------------------------------
(* session/manager.py: Session and SessionManager *)

\* SessionManager.__init__: no session
NoSessions == [u \in {} |-> None]

\* Session as create_session builds it.  received is what the consumer has
\* taken from _event_queue; run_task is the index of the run the task of
\* _run_task drives (0 is None); registered tells whether the id is a key of
\* SessionManager._sessions.
Session(id, module, agent) ==
    [id |-> id, runner |-> NewExecutor("AsyncRunner", module, agent),
     events |-> <<>>, queue |-> <<>>, received |-> <<>>, run_task |-> 0,
     registered |-> TRUE]

\* SessionManager.get_session
get_session(ss, id) ==
    IF id \in DOMAIN ss /\ ss[id].registered THEN Some(ss[id]) ELSE None

\* SessionManager.create_session with the id uuid4 returned
SessionManager_create_session(ss, id, module, agent) ==
    [u \in DOMAIN ss \cup {id} |->
        IF u = id THEN Session(id, module, agent) ELSE ss[u]]

\* SessionManager.start_session: (sessions, raised)
SessionManager_start_session(ss, id) ==
    IF get_session(ss, id) = None
    THEN [ss |-> ss, raised |-> Some("ValueError")]
    ELSE LET r == ss[id].runner
             g == Len(r.runs) + 1
         IN [ss |-> [ss EXCEPT
                       ![id].runner.runs = Append(@, NewRun(r.module.steps)),
                       ![id].run_task = g],
             raised |-> None]

\* a task that is done: its run has ended or has been cancelled
TaskDone(r, g) == r.runs[g].pc \in {"done", "cancelled"}

\* task.cancel(): CancelledError is thrown into the run where it is
\* suspended; the future it awaits is cancelled with it
Cancel(r, g) ==
    [r EXCEPT !.runs[g].pc = "cancelled",
              !.runs[g].fut = IF @ = "none" THEN "none" ELSE "cancelled"]

\* a delete_session that releases the consumer with an `error` event
SessionManager_delete_session_with_error(ss, id) ==
    IF get_session(ss, id) = None THEN ss
    ELSE LET s == ss[id]
             cancels == s.run_task # 0 /\ ~TaskDone(s.runner, s.run_task)
             r == IF cancels THEN Cancel(s.runner, s.run_task) ELSE s.runner
             error == RunEvent("error", [message |-> "CancelledError"])
         IN [ss EXCEPT ![id].runner = r, ![id].registered = FALSE,
                       ![id].events = IF cancels THEN Append(@, error) ELSE @,
                       ![id].queue = IF cancels THEN Append(@, error) ELSE @]

\* SessionManager.delete_session
SessionManager_delete_session(ss, id) ==
    IF get_session(ss, id) = None THEN ss
    ELSE LET s == ss[id]
             r == IF s.run_task # 0 /\ ~TaskDone(s.runner, s.run_task)
                  THEN Cancel(s.runner, s.run_task) ELSE s.runner
         IN [ss EXCEPT ![id].runner = r, ![id].registered = FALSE]

\* SessionManager.provide_input: (sessions, raised)
SessionManager_provide_input(ss, id, content) ==
    IF get_session(ss, id) = None
    THEN [ss |-> ss, raised |-> Some("ValueError")]
    ELSE LET c == AsyncRunner_provide_input(ss[id].runner, content) IN
         [ss |-> [ss EXCEPT ![id].runner = c.r], raised |-> c.raised]

\* SessionManager.inject_event: (sessions, raised, value)
SessionManager_inject_event(ss, id, tool_name, event_type, args) ==
    IF get_session(ss, id) = None
    THEN [ss |-> ss, raised |-> Some("ValueError"), value |-> None]
    ELSE LET c == AsyncRunner_inject_event(ss[id].runner, tool_name, event_type, args)
         IN [ss |-> [ss EXCEPT ![id].runner = c.r],
             raised |-> c.raised, value |-> c.value]

\* SessionManager.pause_session: (sessions, result)
SessionManager_pause_session(ss, id) ==
    [ss |-> ss, result |-> get_session(ss, id) # None]

\* SessionManager.resume_session: (sessions, result)
SessionManager_resume_session(ss, id) ==
    [ss |-> ss, result |-> get_session(ss, id) # None]

\* the resumptions of the generator of run g, up to its next yield or await
RunSuccessors(r, g) ==
    LET pc == r.runs[g].pc IN
    CASE pc = "start" -> {AsyncRunner_start(r, g)}
      [] pc = "loop" -> {AsyncRunner_run(r, g)}
      [] pc = "agent" ->
           {AsyncRunner_handle_await_agent(AgentReturns(r, g, action), g, action) :
               action \in AgentStep(r.agent)}
      [] pc = "await_yielded" -> {AsyncRunner_handle_await_user_wait(r, g)}
      [] pc = "await_wait" /\ r.runs[g].fut \in {"result", "cancelled"} ->
           {AsyncRunner_handle_await_user_resume(r, g)}
      [] OTHER -> {}

\* the run is suspended at `await future` with the future not done
Suspended(r, g) == r.runs[g].pc = "await_wait" /\ r.runs[g].fut = "pending"

\* a `for` body that does not put the awaiting_input events on the queue
SessionManager_run_session_drops_prompt(s, g, r2) ==
    LET before == Len(s.runner.runs[g].out)
        new == SubSeq(r2.runs[g].out, before + 1, Len(r2.runs[g].out))
        IsNoPrompt(e) == e.type # "awaiting_input"
    IN [s EXCEPT !.runner = r2,
                 !.events = @ \o new,
                 !.queue = @ \o SelectSeq(new, IsNoPrompt)]

\* SessionManager._run_session: the generator of run g has gone on to r2;
\* every event it yielded is appended to session.events and put on the queue
SessionManager_run_session(s, g, r2) ==
    LET before == Len(s.runner.runs[g].out)
        new == SubSeq(r2.runs[g].out, before + 1, Len(r2.runs[g].out))
    IN [s EXCEPT !.runner = r2,
                 !.events = @ \o new,
                 !.queue = @ \o new]

----------------------------------------------------------------------------
(* the modules and inputs the executors are run on *)

P(field, value) == [NoParams EXCEPT ![field] = value]

InjectUser(id, content) == Step(id, "inject_user", P("content", Some(<<content>>)))
AwaitAgent(id) == Step(id, "await_agent", NoParams)
Branch(id, name) == Step(id, "branch", P("branch_name", Some(name)))
AwaitUser(id) == Step(id, "await_user", P("prompt", Some(<<"name?">>)))
AwaitUserTimeout(id) ==
    Step(id, "await_user",
         [NoParams EXCEPT !.prompt = Some(<<"name?">>), !.timeout = Some(1),
                          !.default = Some(<<"anon">>)])
\* an await_user step with a timeout and no `default` parameter
AwaitUserNoDefault(id) ==
    Step(id, "await_user",
         [NoParams EXCEPT !.prompt = Some(<<"still there?">>), !.timeout = Some(2)])
\* a tool_call step that triggers an event of the store
TriggerEvent(id, event) ==
    Step(id, "tool_call",
         [NoParams EXCEPT !.tool = Some("store"), !.action = Some("trigger_event"),
                          !.args = Some(EventArgs(event))])
DirectToolCall(id, tool, order_id) ==
    Step(id, "tool_call",
         [NoParams EXCEPT !.tool = Some(tool), !.action = Some("get_order"),
                          !.args = Some(Args(order_id))])

\* EnvConfig: initial_state, and the config of the tool reference "shopify"
Environment(cash_balance, negotiation_events, initial_orders) ==
    [initial_state |-> [cash_balance |-> cash_balance,
                        negotiation_events |-> negotiation_events],
     initial_orders |-> initial_orders]

\* an environment with an empty initial_state and tool references without config
NoEnvironment == Environment(None, None, None)

Module(id, steps, branches) ==
    [id |-> id, tools |-> {"shopify"}, environment |-> NoEnvironment,
     steps |-> steps, branches |-> branches]

\* a module whose environment has an initial_state and tool configs
ModuleIn(environment, tools, id, steps, branches) ==
    [id |-> id, tools |-> tools, environment |-> environment,
     steps |-> steps, branches |-> branches]

NoBranches == [n \in {} |-> <<>>]

Modules ==
    { Module("empty", <<>>, NoBranches),
      Module("chat", <<InjectUser("s1", "hi"), AwaitAgent("s2"),
                       AwaitAgent("s3"), InjectUser("s4", "bye")>>, NoBranches),
      Module("branching",
             <<InjectUser("s1", "hi"), Branch("s2", "esc"),
               InjectUser("s3", "unreached")>>,
             [n \in {"esc", "deep"} |->
                 IF n = "esc"
                 THEN <<InjectUser("e1", "escalated"), Branch("e2", "deep"),
                        InjectUser("e3", "unreached")>>
                 ELSE <<AwaitAgent("d1")>>]),
      Module("unknown_branch",
             <<Branch("s1", "nope"), Step("s2", "branch", NoParams),
               InjectUser("s3", "linear")>>,
             [n \in {"esc"} |-> <<InjectUser("e1", "escalated")>>]),
      Module("empty_key",
             <<Branch("s1", ""), InjectUser("s2", "linear")>>,
             [n \in {""} |-> <<InjectUser("e1", "escalated")>>]),
      Module("interactive",
             <<AwaitUser("s1"), AwaitAgent("s2"), AwaitUserTimeout("s3")>>,
             NoBranches),
      Module("timeouts",
             <<AwaitUserNoDefault("t1"), AwaitUserTimeout("t2"),
               InjectUser("t3", "after")>>, NoBranches),
      ModuleIn(Environment(Some(500), Some(<<>>), Some(StoreOrders)),
               {"shopify", "store"}, "configured",
               <<InjectUser("c1", "refund please"), AwaitAgent("c2"),
                 TriggerEvent("c3", "walk_away"), AwaitAgent("c4")>>, NoBranches),
      Module("direct",
             <<DirectToolCall("s1", "shopify", StrV("ORD123")),
               DirectToolCall("s2", "ghost", StrV("ORD123")),
               DirectToolCall("s3", "shopify", StrV("ORD999")),
               Step("s4", "wait", NoParams),
               DirectToolCall("s5", "shopify", ListV("ORD123")),
               InjectUser("s6", "after")>>, NoBranches) }

\* what a user may type
Inputs == {<<"Ada">>}

----------------------------------------------------------------------------
(* Spec: one executor, run once by its caller (cli/main.py, the usage in the
   AsyncRunner docstring), the consumer pulling the events one by one *)

Init ==
    /\ runner \in {NewExecutor(k, m, NewAgent(i)) :
                      k \in {"Runner", "AsyncRunner"}, m \in Modules, i \in IdModes}
    /\ sessions = NoSessions
    /\ loop = None
    /\ last_call = None

Pc(g) == IF g <= Len(runner.runs) THEN runner.runs[g].pc ELSE "none"

\* the caller calls run()
CallRun ==
    /\ runner.runs = <<>>
    /\ runner' = [runner EXCEPT !.runs =
           <<[NewRun(runner.module.steps) EXCEPT
                 !.pc = IF runner.kind = "Runner" THEN "loop" ELSE "start"]>>]
    /\ UNCHANGED <<sessions, loop, last_call>>

RunnerStep ==
    /\ runner.kind = "Runner" /\ Pc(1) = "loop"
    /\ runner' = Runner_run(runner, 1)
    /\ UNCHANGED <<sessions, loop, last_call>>

RunnerAgentTurn ==
    /\ runner.kind = "Runner" /\ Pc(1) = "agent"
    /\ \E action \in AgentStep(runner.agent) :
          runner' = Runner_handle_await_agent(
                        AgentReturns(runner, 1, action), 1, action)
    /\ UNCHANGED <<sessions, loop, last_call>>

AsyncStart ==
    /\ runner.kind = "AsyncRunner" /\ Pc(1) = "start"
    /\ runner' = AsyncRunner_start(runner, 1)
    /\ UNCHANGED <<sessions, loop, last_call>>

AsyncStep ==
    /\ runner.kind = "AsyncRunner" /\ Pc(1) = "loop"
    /\ runner' = AsyncRunner_run(runner, 1)
    /\ UNCHANGED <<sessions, loop, last_call>>

AsyncAgentTurn ==
    /\ runner.kind = "AsyncRunner" /\ Pc(1) = "agent"
    /\ \E action \in AgentStep(runner.agent) :
          runner' = AsyncRunner_handle_await_agent(
                        AgentReturns(runner, 1, action), 1, action)
    /\ UNCHANGED <<sessions, loop, last_call>>

AsyncAwaitUserWait ==
    /\ runner.kind = "AsyncRunner" /\ Pc(1) = "await_yielded"
    /\ runner' = AsyncRunner_handle_await_user_wait(runner, 1)
    /\ UNCHANGED <<sessions, loop, last_call>>

AsyncTimeout ==
    /\ runner.kind = "AsyncRunner" /\ Pc(1) = "await_wait"
    /\ runner.runs[1].fut = "pending"
    /\ HasTimeout(runner.runs[1].step[1])
    /\ runner' = WaitForTimeout(runner, 1)
    /\ UNCHANGED <<sessions, loop, last_call>>

AsyncAwaitUserResume ==
    /\ runner.kind = "AsyncRunner" /\ Pc(1) = "await_wait"
    /\ runner.runs[1].fut \in {"result", "cancelled"}
    /\ runner' = AsyncRunner_handle_await_user_resume(runner, 1)
    /\ UNCHANGED <<sessions, loop, last_call>>

\* somebody calls runner.provide_input(content)
ProvideInput ==
    /\ runner.kind = "AsyncRunner"
    /\ \E content \in Inputs :
          LET c == AsyncRunner_provide_input(runner, content) IN
          /\ runner' = c.r
          /\ last_call' = Some([op |-> "provide_input",
                                state |-> runner.state, raised |-> c.raised,
                                changed |-> c.r # runner])
    /\ UNCHANGED <<sessions, loop>>

Next ==
    \/ CallRun
    \/ RunnerStep
    \/ RunnerAgentTurn
    \/ AsyncStart
    \/ AsyncStep
    \/ AsyncAgentTurn
    \/ AsyncAwaitUserWait
    \/ AsyncTimeout
    \/ AsyncAwaitUserResume
    \/ ProvideInput

Spec == Init /\ [][Next]_vars

\* The executors on the modules with timeouts, with the scheduling asyncio
\* gives: a coroutine whose awaited future is done (resolved, or cancelled by
\* wait_for) is resumed by the event loop
\* the modules that have an await_user step with a timeout
TimeoutModules ==
    {m \in Modules : \E i \in 1..Len(m.steps) :
        m.steps[i].action = "await_user" /\ HasTimeout(m.steps[i])}

InitLive ==
    /\ runner \in {NewExecutor(k, m, NewAgent(i)) :
                      k \in {"Runner", "AsyncRunner"}, m \in TimeoutModules,
                      i \in IdModes}
    /\ sessions = NoSessions
    /\ loop = None
    /\ last_call = None

SpecLive == InitLive /\ [][Next]_vars /\ WF_vars(AsyncAwaitUserResume)

----------------------------------------------------------------------------
(* SpecSession: a SessionManager, its sessions, their producer tasks and
   consumers on one asyncio event loop (api/websocket.py).  A task keeps the
   loop from one await that suspends it to the next: `loop` names the task
   that is running, and nothing else happens until it suspends or ends. *)

\* the ids uuid4 hands out
Uuids == {"u1", "u2"}

SessionModules ==
    { Module("ask", <<AwaitUser("s1"), AwaitAgent("s2")>>, NoBranches),
      Module("failing", <<AwaitUser("f1"),
                          DirectToolCall("f2", "shopify", ListV("ORD123"))>>,
             NoBranches),
      Module("branch_ask", <<Branch("s1", "b")>>,
             [n \in {"b"} |-> <<InjectUser("b1", "hello"),
                                AwaitUserTimeout("b2")>>]) }

InitSession ==
    /\ runner = NewExecutor("AsyncRunner", Module("empty", <<>>, NoBranches), BaseAgent)
    /\ sessions = NoSessions
    /\ loop = None
    /\ last_call = None

RECURSIVE Starts(_, _)
\* the number of start_session calls that the sessions of ids have accepted
Starts(ss, ids) ==
    IF ids = {} THEN 0
    ELSE LET u == CHOOSE x \in ids : TRUE IN
         Len(ss[u].runner.runs) + Starts(ss, ids \ {u})

\* uuid4: an id no session has had
FreshUuids(ss) ==
    IF "u1" \notin DOMAIN ss THEN {"u1"} ELSE Uuids \ DOMAIN ss

CreateSession ==
    /\ loop = None
    /\ \E id \in FreshUuids(sessions), module \in SessionModules :
          sessions' = SessionManager_create_session(sessions, id, module, BaseAgent)
    /\ UNCHANGED <<runner, loop, last_call>>

StartSession ==
    /\ loop = None
    /\ \E id \in Uuids :
          LET c == SessionManager_start_session(sessions, id) IN
          /\ Starts(sessions, DOMAIN sessions) < MaxStarts
          /\ sessions' = c.ss
    /\ UNCHANGED <<runner, loop, last_call>>

\* the event loop runs task g of session id up to its next yield or await
TaskStep ==
    \E id \in DOMAIN sessions :
       \E g \in 1..Len(sessions[id].runner.runs) :
          /\ loop \in {None, Some(<<id, g>>)}
          /\ \E r2 \in RunSuccessors(sessions[id].runner, g) :
                /\ sessions' = [sessions EXCEPT
                       ![id] = SessionManager_run_session(@, g, r2)]
                /\ loop' = IF Suspended(r2, g) \/ TaskDone(r2, g)
                           THEN None ELSE Some(<<id, g>>)
          /\ UNCHANGED <<runner, last_call>>

\* the timer of asyncio.wait_for fires
SessionTimeout ==
    /\ loop = None
    /\ \E id \in DOMAIN sessions :
          \E g \in 1..Len(sessions[id].runner.runs) :
             /\ Suspended(sessions[id].runner, g)
             /\ HasTimeout(sessions[id].runner.runs[g].step[1])
             /\ sessions' = [sessions EXCEPT
                    ![id].runner = WaitForTimeout(@, g)]
    /\ UNCHANGED <<runner, loop, last_call>>

SessionProvideInput ==
    /\ loop = None
    /\ \E id \in Uuids, content \in Inputs :
          LET c == SessionManager_provide_input(sessions, id, content) IN
          /\ sessions' = c.ss
    /\ UNCHANGED <<runner, loop, last_call>>

\* the consumer takes the next event from the queue start_session returned
Consume ==
    /\ loop = None
    /\ \E id \in DOMAIN sessions :
          /\ sessions[id].queue # <<>>
          /\ sessions' = [sessions EXCEPT
                 ![id].received = Append(@, Head(sessions[id].queue)),
                 ![id].queue = Tail(@)]
    /\ UNCHANGED <<runner, loop, last_call>>

DeleteSession ==
    /\ loop = None
    /\ \E id \in DOMAIN sessions :
          /\ sessions[id].registered
          /\ sessions' = SessionManager_delete_session(sessions, id)
    /\ UNCHANGED <<runner, loop, last_call>>

NextSession ==
    \/ CreateSession
    \/ StartSession
    \/ TaskStep
    \/ SessionTimeout
    \/ SessionProvideInput
    \/ Consume
    \/ DeleteSession

SpecSession == InitSession /\ [][NextSession]_vars

\* SpecSession with the scheduling asyncio gives: a task that can run is run,
\* and the consumer (send_events in api/websocket.py) takes what is on the queue
SpecSessionLive == SpecSession /\ WF_vars(TaskStep) /\ WF_vars(Consume)

----------------------------------------------------------------------------
(* Properties of the executors, checked under Spec *)

Last(q) == q[Len(q)]
Count(q, Test(_)) == Cardinality({i \in 1..Len(q) : Test(q[i])})
IsAsync == runner.kind = "AsyncRunner"
Called == Len(runner.runs) = 1
Finished == Called /\ runner.runs[1].pc \in {"done", "raised"}

\* C1: in the event log of either executor every tool_call event is
\* immediately followed by one tool_result event with the same tool and
\* action (and every tool_result event answers the tool_call just before it),
\* whatever the module, the agent and the tool do.
C1_ToolCallFollowedByResult ==
    LET ev == runner.events IN
    \A i \in 1..Len(ev) :
        /\ ev[i].type = "tool_call" =>
              /\ i < Len(ev)
              /\ ev[i + 1].type = "tool_result"
              /\ ev[i + 1].payload.tool = ev[i].payload.tool
              /\ ev[i + 1].payload.action = ev[i].payload.action
        /\ ev[i].type = "tool_result" => (i > 1 /\ ev[i - 1].type = "tool_call")

IsAgentToolCall(e) == e.type = "tool_call" /\ "direct" \notin DOMAIN e.payload
HasToolCalls(m) == m.role = "assistant" /\ m.tool_calls # None

\* the tool_result event of the n-th tool call the agent asked for
NthAgentToolResult(ev, n) ==
    LET e == CHOOSE k \in 1..Len(ev) :
                 /\ IsAgentToolCall(ev[k])
                 /\ Cardinality({j \in 1..k : IsAgentToolCall(ev[j])}) = n
    IN ev[e + 1].payload.result

\* C2: in the history every assistant message with a tool_calls entry is
\* followed, before the next assistant message, by exactly one tool message
\* with that entry's id, whose content is the JSON text of the data when the
\* tool succeeded and the error string when it failed.
C2_ToolMessageAnswersToolCall ==
    LET h == runner.history
        ev == runner.events
    IN \A i \in 1..Len(h) :
        HasToolCalls(h[i]) =>
            LET id == h[i].tool_calls[1][1].id
                later == {k \in (i + 1)..Len(h) : h[k].role = "assistant"}
                next == IF later = {} THEN Len(h) + 1
                        ELSE CHOOSE k \in later : \A k2 \in later : k <= k2
                answers == {j \in (i + 1)..(next - 1) :
                                h[j].role = "tool" /\ h[j].tool_call_id = Some(id)}
                n == Cardinality({k \in 1..i : HasToolCalls(h[k])})
            IN /\ Cardinality(answers) = 1
               /\ Cardinality({k \in 1..Len(ev) : IsAgentToolCall(ev[k])}) >= n
               /\ \A j \in answers :
                     LET res == NthAgentToolResult(ev, n) IN
                     h[j].content = IF res.success
                                    THEN JsonDumps(OrElse(res.data, "null"))
                                    ELSE OrElse(res.error, <<>>)

Index(r, g) == IF r.kind = "Runner" THEN r.runs[g].step_index ELSE r.step_index

\* every step of a module, in its main sequence or in a branch
AllSteps(m) ==
    {m.steps[i] : i \in 1..Len(m.steps)} \cup
    UNION {{m.branches[b][i] : i \in 1..Len(m.branches[b])} : b \in DOMAIN m.branches}
StepById(m, id) == CHOOSE s \in AllSteps(m) : s.id = id

\* the `user` events an await_user step has produced
IsTypedInput(e) == e.type = "user" /\ ~e.payload.scripted

\* the executor waits for input that has neither been supplied nor timed out
Waiting ==
    /\ IsAsync /\ Called
    /\ runner.state = "awaiting_user"
    /\ runner.runs[1].fut \in {"none", "pending"}

\* C3, the state part: each await_user step that has been left has emitted
\* exactly one `user` event, the one being waited on has emitted none, and
\* the future of a step has accepted at most one provide_input call.
C3_OneUserEventPerAwaitUser ==
    (IsAsync /\ Called) =>
        LET ex == runner.runs[1].executed
            ev == runner.events
            awaited == {i \in 1..Len(ex) :
                           StepById(runner.module, ex[i]).action = "await_user"}
        IN /\ \A i \in awaited :
                 Cardinality({k \in 1..Len(ev) :
                     IsTypedInput(ev[k]) /\ ev[k].payload.step_id = ex[i]})
                 = IF i = Len(ex) /\ runner.state = "awaiting_user" THEN 0 ELSE 1
           /\ Count(ev, IsTypedInput)
                 = Cardinality(awaited)
                   - (IF runner.state = "awaiting_user" THEN 1 ELSE 0)
           /\ runner.runs[1].accepted <= 1
           /\ (runner.runs[1].accepted = 1 /\ runner.runs[1].pc = "await_wait")
                 => runner.runs[1].fut = "result"

\* C3: while the interactive executor is in state awaiting_user and neither an
\* input has been accepted nor the timeout has fired, no step emits an event,
\* appends a message or advances the step index; each await_user step emits
\* exactly one `user` event and accepts at most one provide_input call.
C3_AwaitingUserIsStill ==
    /\ []C3_OneUserEventPerAwaitUser
    /\ [][Waiting => /\ runner'.events = runner.events
                     /\ runner'.history = runner.history
                     /\ runner'.step_index = runner.step_index
                     /\ runner'.runs[1].out = runner.runs[1].out]_vars

\* an input was accepted, a second call was refused, and the step has emitted
\* its `user` event with the accepted text
C3_Witness ==
    /\ IsAsync /\ Called
    /\ runner.runs[1].accepted = 1
    /\ last_call # None
    /\ last_call[1].state = "awaiting_user"
    /\ last_call[1].raised = Some("RuntimeError")
    /\ \E k \in 1..Len(runner.events) :
          /\ IsTypedInput(runner.events[k])
          /\ runner.events[k].payload.content = <<"Ada">>

----------------------------------------------------------------------------
(* the await_agent sub-loop *)

\* the await_agent steps the run has entered
AgentSteps ==
    {id \in {runner.runs[1].executed[i] : i \in 1..Len(runner.runs[1].executed)} :
        StepById(runner.module, id).action = "await_agent"}

\* positions of the tool_call events the agent asked for in step id
ToolCallsOf(id) ==
    {k \in 1..Len(runner.events) :
        IsAgentToolCall(runner.events[k]) /\ runner.events[k].payload.step_id = id}

\* every answer the agent has given is one and the same tool_call
SameToolCallEveryTime ==
    LET script == runner.agent.script IN
    /\ Len(script) >= 1
    /\ script[1].type = "tool_call"
    /\ \A i \in 1..Len(script) : script[i] = script[1]

\* the run has ended with an evaluation
EvaluationProduced ==
    /\ runner.runs[1].pc = "done"
    /\ IF IsAsync
       THEN /\ runner.runs[1].out # <<>>
            /\ Last(runner.runs[1].out).type = "completed"
       ELSE runner.runs[1].result # None

\* C5: at most 10 agent tool calls are executed within one await_agent step;
\* with an agent that returns the same tool_call every time, each await_agent
\* step ends after exactly 10 tool_call/tool_result pairs and no `agent`
\* event, the remaining steps run and the evaluation is produced.
C5_ToolCallCap ==
    Called =>
        /\ runner.runs[1].tool_call_count <= max_tool_calls
        /\ \A id \in AgentSteps : Cardinality(ToolCallsOf(id)) <= max_tool_calls
        /\ (Finished /\ SameToolCallEveryTime /\ AgentSteps # {}) =>
              /\ \A id \in AgentSteps :
                    /\ Cardinality(ToolCallsOf(id)) = max_tool_calls
                    /\ \A k \in ToolCallsOf(id) :
                          /\ k < Len(runner.events)
                          /\ runner.events[k + 1].type = "tool_result"
                    /\ \A k \in 1..Len(runner.events) :
                          ~(runner.events[k].type = "agent"
                            /\ runner.events[k].payload.step_id = id)
              /\ AtEnd(runner, 1)
              /\ EvaluationProduced

----------------------------------------------------------------------------
(* branch steps *)

\* the sequence of the module (its steps or one of its branches) that holds
\* the step id, and the position of the step in it
SeqOf(m, id) ==
    IF \E i \in 1..Len(m.steps) : m.steps[i].id = id THEN m.steps
    ELSE m.branches[CHOOSE b \in DOMAIN m.branches :
                        \E i \in 1..Len(m.branches[b]) : m.branches[b][i].id = id]
PosIn(seq, id) == CHOOSE i \in 1..Len(seq) : seq[i].id = id

IsBranchEventOf(e, id) == e.type = "branch" /\ e.payload.step_id = id

\* what the run does at position i of its trace of executed steps, a branch
\* step, when `taken` says whether the step's branch_name counts as defined
BranchStepAt(i, taken) ==
    LET ex == runner.runs[1].executed
        m == runner.module
        id == ex[i]
        seq == SeqOf(m, id)
        pos == PosIn(seq, id)
    IN /\ Cardinality({k \in 1..Len(runner.events) :
                          IsBranchEventOf(runner.events[k], id)})
          = Cardinality({j \in 1..Len(ex) : ex[j] = id})
       /\ IF taken
          THEN LET target == m.branches[StepById(m, id).params.branch_name[1]] IN
               /\ i < Len(ex) => (target # <<>> /\ ex[i + 1] = target[1].id)
               /\ i = Len(ex) => (runner.runs[1].steps = target /\ Index(runner, 1) = 0)
               /\ \A j \in (i + 1)..Len(ex) :
                     \A p \in (pos + 1)..Len(seq) : ex[j] # seq[p].id
          ELSE /\ i < Len(ex) => (pos < Len(seq) /\ ex[i + 1] = seq[pos + 1].id)
               /\ i = Len(ex) => (runner.runs[1].steps = seq /\ Index(runner, 1) = pos)

\* C6: a branch step emits exactly one `branch` event; if its branch_name is
\* a key of the module's branches the run goes on at index 0 of that branch
\* and never executes a later step of the sequence that held the branch step;
\* otherwise it goes on with the step after the branch step.
C6_BranchReplacesSequence ==
    Called =>
        LET ex == runner.runs[1].executed
            m == runner.module
        IN \A i \in 1..Len(ex) :
              StepById(m, ex[i]).action = "branch" =>
                 LET name == StepById(m, ex[i]).params.branch_name IN
                 BranchStepAt(i, name # None /\ name[1] \in DOMAIN m.branches)

----------------------------------------------------------------------------
(* the end of an interactive run *)

IsTerminal(e) == e.type \in {"completed", "error"}

\* C7, the state part: a run that has not ended has yielded no terminal
\* event; a run that has ended has yielded exactly one, as its last event:
\* `completed` with the evaluation when all steps ran (state completed), or
\* `error` when a step raised (state error).
C7_TerminalEventLast ==
    (IsAsync /\ Called) =>
        LET run == runner.runs[1] IN
        IF run.pc # "done"
        THEN Count(run.out, IsTerminal) = 0
        ELSE /\ run.out # <<>>
             /\ Count(run.out, IsTerminal) = 1
             /\ IsTerminal(Last(run.out))
             /\ IF run.exc = None
                THEN /\ AtEnd(runner, 1)
                     /\ runner.state = "completed"
                     /\ Last(run.out) = RunEvent("completed",
                            [evaluation |-> AsyncRunner_evaluate(runner),
                             num_events |-> Len(runner.events)])
                ELSE /\ runner.state = "error"
                     /\ Last(run.out) = RunEvent("error", [message |-> run.exc[1]])

\* C7: every interactive run that ends yields exactly one terminal event, as
\* its last event (`completed` with the evaluation and state completed when
\* all steps ran, `error` and state error when a step raised), and yields
\* nothing after it.
C7_ExactlyOneTerminalEvent ==
    /\ []C7_TerminalEventLast
    /\ [][(IsAsync /\ Called /\ runner.runs[1].pc = "done")
             => runner'.runs[1].out = runner.runs[1].out]_vars

\* a run that raised in its second await_agent step, after yielding events
C7_Witness ==
    /\ IsAsync /\ Called
    /\ runner.runs[1].pc = "done"
    /\ Len(runner.runs[1].out) >= 3
    /\ Last(runner.runs[1].out).type = "error"
    /\ runner.state = "error"

----------------------------------------------------------------------------
(* `stop` in the await_agent sub-loop *)

\* this step is a call of agent.step that returned `stop`
StopAnswered ==
    /\ Called
    /\ runner'.agent.calls = runner.agent.calls + 1
    /\ runner'.agent.last # None
    /\ runner'.agent.last[1].type = "stop"

\* before this answer the sub-loop has seen no tool call, or already a stop
NoNudgeApplies ==
    \/ runner.runs[1].tool_call_count = 0
    \/ \E i \in 1..Len(runner.runs[1].turns) : runner.runs[1].turns[i] = "stop"

\* the executor emits agent_stop, leaves the sub-loop and goes on with the
\* next step of the same sequence
EmitsAgentStopAndGoesOn ==
    /\ runner'.events = Append(runner.events,
           RunEvent("agent_stop", [step_id |-> runner.runs[1].step[1].id]))
    /\ runner'.history = runner.history
    /\ runner'.runs[1].pc = "loop"
    /\ runner'.runs[1].steps = runner.runs[1].steps
    /\ Index(runner', 1) = Index(runner, 1) + 1

\* the run ends at once, with its RunResult and no further event
EndsTheRun ==
    /\ runner'.events = runner.events
    /\ runner'.history = runner.history
    /\ runner'.runs[1].pc = "done"
    /\ runner'.runs[1].executed = runner.runs[1].executed
    /\ runner'.runs[1].result =
           Some([module_id |-> runner.module.id, events |-> runner.events,
                 evaluation |-> Runner_evaluate(runner)])

\* C9 as stated: in either executor a `stop` to which no nudge retry applies
\* emits agent_stop, leaves the sub-loop only, and the run goes on with the
\* next step.
C9_StopEmitsAgentStop ==
    [][(StopAnswered /\ NoNudgeApplies) => EmitsAgentStopAndGoesOn]_vars

\* C9, amended: in the interactive executor a `stop` to which no nudge retry
\* applies emits agent_stop, leaves the sub-loop only, and the run goes on
\* with the next step; in the synchronous Runner a `stop` emits no event and
\* ends the run, which returns its RunResult with the evaluation.
C9_StopPerExecutor ==
    [][StopAnswered =>
          IF IsAsync THEN (NoNudgeApplies => EmitsAgentStopAndGoesOn)
          ELSE EndsTheRun]_vars

\* the interactive executor has emitted agent_stop for step s2 of "chat" and
\* has gone on to execute the steps after it
C9_Witness ==
    /\ IsAsync /\ Called
    /\ \E k \in 1..Len(runner.events) :
          /\ runner.events[k].type = "agent_stop"
          /\ runner.events[k].payload.step_id = "s2"
    /\ Len(runner.runs[1].executed) = 4
    /\ runner.runs[1].executed[4] = "s4"

\* C10, for the interactive executor (the synchronous Runner has no retry:
\* there every stop ends the run): in a sub-loop with at least one tool call
\* the first stop appends the nudge message to the history and the agent is
\* asked again; a further stop of the same sub-loop emits agent_stop; this
\* does not depend on earlier await_agent steps.
C10_NudgeOncePerSubLoop ==
    [][(StopAnswered /\ IsAsync /\ runner.runs[1].tool_call_count > 0) =>
          IF NoNudgeApplies
          THEN EmitsAgentStopAndGoesOn
          ELSE /\ runner'.history = Append(runner.history, Message("user",
                      <<"[System: Please respond to the customer based on the information you just retrieved.]">>,
                      None, None, None))
               /\ runner'.events = runner.events
               /\ runner'.runs[1].pc = "agent"
               /\ runner'.step_index = runner.step_index]_vars

----------------------------------------------------------------------------
(* Properties of the session manager, checked under SpecSession *)

\* C4: provide_input fails with the not-found error (ValueError) when the
\* session id is absent and with the bad-state error (RuntimeError) whenever
\* the session's executor is not in awaiting_user; a failed call changes
\* nothing of that session, and no call changes anything of another session.
C4_ProvideInputErrors ==
    loop = None =>
        \A id \in Uuids, content \in Inputs :
            LET c == SessionManager_provide_input(sessions, id, content)
                s == get_session(sessions, id)
            IN /\ s = None => c.raised = Some("ValueError")
               /\ (s # None /\ s[1].runner.state # "awaiting_user")
                     => c.raised = Some("RuntimeError")
               /\ c.raised # None => c.ss = sessions
               /\ \A other \in DOMAIN sessions \ {id} : c.ss[other] = sessions[other]

IsPrefix(p, q) == Len(p) <= Len(q) /\ SubSeq(q, 1, Len(p)) = p
IsNotTerminal(e) == ~IsTerminal(e)

RECURSIVE Yielded(_, _)
\* the number of events the first n runs of an executor have yielded
Yielded(r, n) == IF n = 0 THEN 0 ELSE Len(r.runs[n].out) + Yielded(r, n - 1)

\* C8, the state part: what the consumer has taken followed by what is still
\* on the queue is the session's recorded event list; that list holds what
\* the executor's runs have yielded, in the order yielded: it is the yielded
\* sequence of the run when there is one run, and without the terminal events
\* it is the executor's own event log.
C8_StreamIsTheEventList ==
    \A id \in DOMAIN sessions :
        LET s == sessions[id] IN
        /\ s.received \o s.queue = s.events
        /\ Len(s.events) = Yielded(s.runner, Len(s.runner.runs))
        /\ Len(s.runner.runs) = 1 => s.events = s.runner.runs[1].out
        /\ SelectSeq(s.events, IsNotTerminal) = s.runner.events

\* C8: the events the consumer takes from a started session's stream are the
\* events its executor emitted, each taken at most once and in the order
\* emitted, and the session's recorded event list is the sequence put on the
\* stream: both lists only grow at their end, the consumer always takes the
\* head of the queue, and an event enters the queue when it is recorded.
C8_StreamDeliversInOrder ==
    /\ []C8_StreamIsTheEventList
    /\ [][\A id \in DOMAIN sessions :
             /\ id \in DOMAIN sessions'
             /\ IsPrefix(sessions[id].events, sessions'[id].events)
             /\ IsPrefix(sessions[id].received, sessions'[id].received)
             /\ Len(sessions'[id].received) <= Len(sessions[id].received) + 1
             /\ sessions'[id].received # sessions[id].received
                   => /\ sessions[id].queue # <<>>
                      /\ Last(sessions'[id].received) = Head(sessions[id].queue)
                      /\ sessions'[id].queue = Tail(sessions[id].queue)]_vars

\* the consumer of a session on "ask" has taken every event of a run that
\* got its input and completed, the terminal event last
C8_Witness ==
    \E id \in DOMAIN sessions :
        LET s == sessions[id] IN
        /\ Len(s.runner.runs) = 1
        /\ s.queue = <<>>
        /\ Len(s.received) = 4
        /\ s.received[1].type = "awaiting_input"
        /\ s.received[2].type = "user"
        /\ s.received[2].payload.content = <<"Ada">>
        /\ s.received[3].type = "agent_stop"
        /\ s.received[4].type = "completed"

----------------------------------------------------------------------------
(* await_user with a timeout, checked under SpecLive *)

\* the ids of the await_user steps of Modules that have a timeout
TimeoutStepIds == {"s3", "t1", "t2"}

\* what the step's `user` event carries when no input arrived in time
DefaultOf(step) == OrElse(step.params.default, <<"[timeout - no input]">>)

\* the timeout of the await_user step `id` has fired with no input supplied
TimedOut(id) ==
    /\ IsAsync /\ Called
    /\ runner.runs[1].pc = "await_wait"
    /\ runner.runs[1].fut = "cancelled"
    /\ runner.runs[1].step[1].id = id

\* the `user` event of step id with the step's default has been emitted
DefaultEmitted(id) ==
    \E k \in 1..Len(runner.events) :
        /\ runner.events[k].type = "user"
        /\ runner.events[k].payload.step_id = id
        /\ runner.events[k] = RunEvent("user",
            [content |-> DefaultOf(StepById(runner.module, id)),
             step_id |-> id, scripted |-> FALSE])

\* every awaiting_input event carries the prompt and the timeout of its step
C11_AwaitingInputTellsTimeout ==
    \A k \in 1..Len(runner.events) :
        runner.events[k].type = "awaiting_input" =>
            LET step == StepById(runner.module, runner.events[k].payload.step_id) IN
            /\ step.action = "await_user"
            /\ runner.events[k].payload.prompt = OrElse(step.params.prompt, <<>>)
            /\ runner.events[k].payload.timeout = step.params.timeout

\* C11: an await_user step with a timeout emits awaiting_input with its prompt
\* and timeout; once the timeout has fired with no input supplied, the next
\* thing the executor does is to emit the `user` event with the step's default
\* ("[timeout - no input]" without one), append that user message to the
\* history and go on to the next step, and it eventually does so.
C11_TimeoutYieldsDefault ==
    /\ []C11_AwaitingInputTellsTimeout
    /\ [][\A id \in TimeoutStepIds :
             (TimedOut(id) /\ runner' # runner) =>
                LET content == DefaultOf(StepById(runner.module, id)) IN
                /\ runner'.events = Append(runner.events, RunEvent("user",
                       [content |-> content, step_id |-> id, scripted |-> FALSE]))
                /\ runner'.history = Append(runner.history,
                       Message("user", content, None, None, None))
                /\ runner'.step_index = runner.step_index + 1
                /\ runner'.runs[1].pc = "loop"
                /\ runner'.state = "running"]_vars
    /\ \A id \in TimeoutStepIds : TimedOut(id) ~> DefaultEmitted(id)

\* both timeouts of "timeouts" fired: the step without a default produced
\* "[timeout - no input]", the one with a default produced it, and the run
\* went on to the step after them
C11_Witness ==
    /\ IsAsync /\ Called
    /\ runner.module.id = "timeouts"
    /\ runner.runs[1].accepted = 0
    /\ DefaultEmitted("t1") /\ DefaultEmitted("t2")
    /\ DefaultOf(StepById(runner.module, "t1")) = <<"[timeout - no input]">>
    /\ DefaultOf(StepById(runner.module, "t2")) = <<"anon">>
    /\ runner.runs[1].executed = <<"t1", "t2", "t3">>

----------------------------------------------------------------------------
(* SpecTwice: a caller binds a module once, runs the synchronous Runner on
   it, and then constructs a second executor on the same module object with
   the same agent restarted (tests/test_runner.py builds its runners this way
   from one ModuleSpec) *)

\* the step actions both executors are specified to share
SharedActions == {"inject_user", "await_agent", "branch", "tool_call"}

SharedModules ==
    {m \in Modules : \A step \in AllSteps(m) : step.action \in SharedActions}

\* the value of env_state, whoever owns its objects
EnvState(r) ==
    [cash_balance |-> r.env_state.cash_balance,
     negotiation_events |-> NegotiationEvents(r)]

InitTwice ==
    /\ runner \in {NewExecutor("Runner", m, NewAgent(i)) :
                      m \in SharedModules, i \in IdModes}
    /\ sessions = NoSessions
    /\ loop = None
    /\ last_call = None

\* the first run has returned its RunResult: the caller keeps it and
\* constructs the second executor
RunAgain ==
    /\ last_call = None
    /\ runner.kind = "Runner" /\ Called /\ runner.runs[1].pc = "done"
    /\ \E kind \in {"Runner", "AsyncRunner"} :
          runner' = NewExecutor(kind, runner.module, Restarted(runner.agent))
    /\ last_call' = Some([op |-> "run",
                          events |-> runner.events,
                          evaluation |-> runner.runs[1].result[1].evaluation,
                          env_state |-> EnvState(runner)])
    /\ UNCHANGED <<sessions, loop>>

NextTwice ==
    \/ CallRun
    \/ RunnerStep
    \/ RunnerAgentTurn
    \/ RunAgain
    \/ AsyncStart
    \/ AsyncStep
    \/ AsyncAgentTurn

SpecTwice == InitTwice /\ [][NextTwice]_vars

\* the second executor has been constructed and its run has ended
SecondRunEnded(kind) ==
    /\ last_call # None
    /\ runner.kind = kind
    /\ Finished

\* an event as the synchronous Runner records it: the interactive executor
\* adds `scripted` to user events and `direct` to the events of tool_call steps
AsRunnerEvent(e) ==
    CASE e.type = "user" ->
            RunEvent("user", [content |-> e.payload.content,
                              step_id |-> e.payload.step_id])
      [] e.type = "tool_call" ->
            RunEvent("tool_call", [tool |-> e.payload.tool,
                                   action |-> e.payload.action,
                                   args |-> e.payload.args,
                                   step_id |-> e.payload.step_id])
      [] OTHER -> e

IsSharedEvent(e) ==
    e.type \in {"user", "agent", "agent_stop", "tool_call", "tool_result", "branch"}

SharedEvents(ev) ==
    LET shared == SelectSeq(ev, IsSharedEvent)
    IN [i \in 1..Len(shared) |-> AsRunnerEvent(shared[i])]

\* C12: on a module that uses only the shared actions, with the same
\* deterministic agent, the interactive executor ends with the same sequence
\* of user, agent, agent_stop, tool_call, tool_result and branch events and
\* the same env_state as the synchronous executor.
C12_ExecutorsAgree ==
    SecondRunEnded("AsyncRunner") =>
        /\ SharedEvents(runner.events) = SharedEvents(last_call[1].events)
        /\ EnvState(runner) = last_call[1].env_state

\* C13: running the synchronous executor twice on the same module with the
\* same deterministic agent, restarted, gives identical event lists and
\* identical evaluations.
C13_SecondRunSeesNothingOfFirst ==
    SecondRunEnded("Runner") =>
        /\ runner.runs[1].pc = "done"
        /\ runner.events = last_call[1].events
        /\ runner.runs[1].result[1].evaluation = last_call[1].evaluation

----------------------------------------------------------------------------
(* the module object, checked under Spec *)

\* the module as it was bound
BoundModule(id) == CHOOSE m \in Modules : m.id = id

\* C14: running either executor leaves the bound module unchanged:
\* environment.initial_state at every depth, the tool references' config, the
\* steps and the branches are after the run what they were before it.
C14_ModuleUnchanged ==
    runner.module = BoundModule(runner.module.id)

----------------------------------------------------------------------------
(* delete_session on a suspended session, checked under SpecSessionLive *)

\* session id is registered and its producer task is suspended in await_user
SuspendedInAwaitUser(id) ==
    /\ id \in DOMAIN sessions
    /\ sessions[id].registered
    /\ sessions[id].run_task # 0
    /\ Suspended(sessions[id].runner, sessions[id].run_task)

\* session id was deleted while its producer task was waiting in await_user
DeletedInAwaitUser(id) ==
    /\ id \in DOMAIN sessions
    /\ ~sessions[id].registered
    /\ sessions[id].run_task # 0
    /\ LET run == sessions[id].runner.runs[sessions[id].run_task] IN
       /\ run.pc = "cancelled"
       /\ run.fut = "cancelled"
       /\ run.step # None
       /\ run.step[1].action = "await_user"

\* an `error` event has been put on the event stream of session id
ErrorOnStream(id) ==
    /\ id \in DOMAIN sessions
    /\ \E k \in 1..Len(sessions[id].events) : sessions[id].events[k].type = "error"

\* C15 as stated: when a session is deleted while its executor is suspended in
\* an await_user step, an `error` event is delivered on the session's stream.
C15_DeleteReleasesWithError ==
    \A id \in Uuids :
        (DeletedInAwaitUser(id) /\ Len(sessions[id].runner.runs) = 1)
            ~> ErrorOnStream(id)

\* C15, amended: delete_session on a session whose producer task is suspended
\* in await_user cancels that task and the future it awaits and unregisters
\* the session; the call puts nothing on the event stream and changes neither
\* the executor's events, history nor state, and the cancelled run never runs
\* or yields again.
C15_DeleteCancelsSilently ==
    /\ [][\A id \in Uuids :
             (SuspendedInAwaitUser(id) /\ ~sessions'[id].registered) =>
                LET s == sessions[id]
                    t == sessions'[id]
                IN /\ t.runner.runs[s.run_task].pc = "cancelled"
                   /\ t.runner.runs[s.run_task].fut = "cancelled"
                   /\ t.runner.runs[s.run_task].out = s.runner.runs[s.run_task].out
                   /\ t.events = s.events
                   /\ t.queue = s.queue
                   /\ t.received = s.received
                   /\ t.runner.events = s.runner.events
                   /\ t.runner.history = s.runner.history
                   /\ t.runner.state = s.runner.state
                   /\ t.runner.step_index = s.runner.step_index]_vars
    /\ [][\A id \in DOMAIN sessions :
             \A g \in 1..Len(sessions[id].runner.runs) :
                sessions[id].runner.runs[g].pc = "cancelled"
                   => sessions'[id].runner.runs[g] = sessions[id].runner.runs[g]]_vars
    /\ [](\A id \in Uuids :
             DeletedInAwaitUser(id) =>
                LET run == sessions[id].runner.runs[sessions[id].run_task] IN
                /\ Count(run.out, IsTerminal) = 0
                /\ Last(run.out).type = "awaiting_input")

\* a session on "failing" was deleted while waiting for input: the consumer
\* has taken the prompt and nothing else is on the stream
C15_Witness ==
    \E id \in Uuids :
        /\ DeletedInAwaitUser(id)
        /\ Len(sessions[id].runner.runs) = 1
        /\ sessions[id].runner.module.id = "failing"
        /\ sessions[id].queue = <<>>
        /\ Len(sessions[id].received) = 1
        /\ sessions[id].received[1].type = "awaiting_input"
        /\ sessions[id].runner.state = "awaiting_user"

----------------------------------------------------------------------------
(* producer tasks of a session, checked under SpecSession *)

\* the producer tasks of session id that are neither done nor cancelled
LiveTasks(id) ==
    {g \in 1..Len(sessions[id].runner.runs) : ~TaskDone(sessions[id].runner, g)}

\* the runs of session id that have advanced its executor
DrivingRuns(id) ==
    {g \in 1..Len(sessions[id].runner.runs) :
        sessions[id].runner.runs[g].executed # <<>>}

\* C17: at every moment at most one producer task drives a session's
\* executor, whatever calls the session manager receives, start_session more
\* than once on one session included; the step index, history and events of a
\* session are advanced by one run only.
C17_OneProducerPerSession ==
    \A id \in DOMAIN sessions :
        /\ Cardinality(LiveTasks(id)) <= 1
        /\ Cardinality(DrivingRuns(id)) <= 1

----------------------------------------------------------------------------
(* SpecControl: the out-of-band operations of a session, pause, resume and
   inject_event, as api/websocket.py calls them between the steps of the
   producer task.  last_call is the latest of these calls and its outcome. *)

ControlModules ==
    { ModuleIn(Environment(Some(500), None, None), {"shopify", "store"}, "shop",
               <<AwaitUser("k1"), TriggerEvent("k2", "loyalty_appeal"),
                 AwaitAgent("k3")>>, NoBranches) }

\* the tool names, event kinds and extra arguments clients send
InjectedTools == {"store", "shopify", "ghost"}
InjectedEvents == {"walk_away", "meteor"}
InjectedArgs == {None, Some(EventArgs("bulk_promise"))}

\* one client creates one session; the other id stays unknown to the manager
CreateControlSession ==
    /\ loop = None
    /\ sessions = NoSessions
    /\ \E id \in FreshUuids(sessions), module \in ControlModules :
          sessions' = SessionManager_create_session(sessions, id, module, BaseAgent)
    /\ UNCHANGED <<runner, loop, last_call>>

\* session id is live: registered, started, and its producer task not done
IsLive(ss, id) ==
    /\ get_session(ss, id) # None
    /\ ss[id].run_task # 0
    /\ ~TaskDone(ss[id].runner, ss[id].run_task)

PauseSession ==
    /\ loop = None
    /\ \E id \in Uuids :
          LET c == SessionManager_pause_session(sessions, id) IN
          /\ sessions' = c.ss
          /\ last_call' = Some([op |-> "pause_session", id |-> id,
                                result |-> c.result,
                                live |-> IsLive(sessions, id)])
    /\ UNCHANGED <<runner, loop>>

ResumeSession ==
    /\ loop = None
    /\ \E id \in Uuids :
          LET c == SessionManager_resume_session(sessions, id) IN
          /\ sessions' = c.ss
          /\ last_call' = Some([op |-> "resume_session", id |-> id,
                                result |-> c.result,
                                live |-> IsLive(sessions, id)])
    /\ UNCHANGED <<runner, loop>>

\* the events injected into session id so far
Injected(ss, id) == OrElse(NegotiationEvents(ss[id].runner), <<>>)

InjectEvent ==
    /\ loop = None
    /\ \E id \in Uuids, tool_name \in InjectedTools,
          event_type \in InjectedEvents, args \in InjectedArgs :
          LET c == SessionManager_inject_event(sessions, id, tool_name,
                                               event_type, args) IN
          /\ id \in DOMAIN sessions => Len(Injected(sessions, id)) < MaxInjections
          /\ sessions' = c.ss
          /\ last_call' = Some([op |-> "inject_event", id |-> id,
                                tool_name |-> tool_name, raised |-> c.raised,
                                value |-> c.value])
    /\ UNCHANGED <<runner, loop>>

NextControl ==
    \/ CreateControlSession
    \/ StartSession
    \/ TaskStep
    \/ SessionProvideInput
    \/ PauseSession
    \/ ResumeSession
    \/ InjectEvent

SpecControl == InitSession /\ [][NextControl]_vars

\* the latest out-of-band call was a pause of the live session id, and no
\* resume has been called since
Paused(id) ==
    /\ last_call # None
    /\ last_call[1].op = "pause_session"
    /\ last_call[1].id = id
    /\ last_call[1].result
    /\ last_call[1].live

\* C16: after pause is called on a live session its executor begins no
\* further step until resume is called on that session.
C16_PausedExecutorWaits ==
    [][\A id \in Uuids :
          (Paused(id) /\ last_call' = last_call) =>
             \A g \in 1..Len(sessions[id].runner.runs) :
                sessions'[id].runner.runs[g].executed
                   = sessions[id].runner.runs[g].executed]_vars

\* the tool's answer to trigger_event with {event: event_type, ...args}
TriggerAnswer(r, tool_name, event_type, args) ==
    invoke(r, tool_name, "trigger_event",
           IF args # None THEN Update(EventArgs(event_type), args[1])
           ELSE EventArgs(event_type))

\* what inject_event must leave alone in a session
Untouched(s, t) ==
    /\ t.events = s.events
    /\ t.queue = s.queue
    /\ t.received = s.received
    /\ t.registered = s.registered
    /\ t.run_task = s.run_task
    /\ t.runner.events = s.runner.events
    /\ t.runner.history = s.runner.history
    /\ t.runner.state = s.runner.state
    /\ t.runner.step_index = s.runner.step_index
    /\ t.runner.runs = s.runner.runs
    /\ t.runner.module = s.runner.module

\* C18, the state part: whatever the session, the tool, the event kind and
\* the arguments, inject_event fails when the session is absent, when the
\* tool is absent or when the tool reports failure, and else returns the data
\* of the tool's answer to trigger_event with {event: kind, ...args}, invoked
\* once against the session's env_state; it never touches the session's
\* events, history, state or step index, nor another session.
C18_InjectEventCall ==
    loop = None =>
        \A id \in Uuids, tool_name \in InjectedTools,
           event_type \in InjectedEvents, args \in InjectedArgs :
            LET c == SessionManager_inject_event(sessions, id, tool_name,
                                                 event_type, args)
                s == get_session(sessions, id)
            IN /\ DOMAIN c.ss = DOMAIN sessions
               /\ \A other \in DOMAIN sessions \ {id} : c.ss[other] = sessions[other]
               /\ s = None => (c.raised = Some("ValueError") /\ c.ss = sessions)
               /\ s # None =>
                     LET r == s[1].runner
                         answer == TriggerAnswer(r, tool_name, event_type, args)
                     IN /\ Untouched(s[1], c.ss[id])
                        /\ tool_name \notin r.tools =>
                              (c.raised = Some("ValueError") /\ c.ss = sessions)
                        /\ (tool_name \in r.tools /\ ~answer.value[1].success) =>
                              (c.raised = Some("ValueError") /\ c.ss = sessions)
                        /\ (tool_name \in r.tools /\ answer.value[1].success) =>
                              /\ c.raised = None
                              /\ c.value = answer.value[1].data
                              /\ c.ss[id].runner.env_state = answer.r.env_state
                              /\ Len(Injected(c.ss, id)) = Len(Injected(sessions, id)) + 1

\* C18: inject_event invokes the named tool's trigger_event once with
\* {event: event_kind, ...args} against the session's env_state and returns
\* the result data; it fails when the session, or the tool, is absent and when
\* the tool reports failure; a call appends nothing to the session's events
\* or history and changes neither the session state nor the step index.
C18_InjectEventLeavesSessionAlone ==
    /\ []C18_InjectEventCall
    /\ [][(last_call' # last_call /\ last_call'[1].op = "inject_event") =>
             \A id \in DOMAIN sessions :
                /\ Untouched(sessions[id], sessions'[id])
                /\ Len(Injected(sessions', id)) =
                      Len(Injected(sessions, id))
                      + (IF last_call'[1].raised = None /\ last_call'[1].id = id
                         THEN 1 ELSE 0)]_vars

\* two events were injected with success into a session waiting for input,
\* the second with the event kind given in args: env_state has both, the
\* session has emitted nothing but its prompt and is still waiting
C18_Witness ==
    /\ last_call # None
    /\ last_call[1].op = "inject_event"
    /\ last_call[1].raised = None
    /\ last_call[1].value # None
    /\ "u1" \in DOMAIN sessions
    /\ Injected(sessions, "u1") = <<"walk_away", "bulk_promise">>
    /\ sessions["u1"].runner.state = "awaiting_user"
    /\ sessions["u1"].runner.history = <<>>
    /\ Len(sessions["u1"].events) = 1

----------------------------------------------------------------------------
(* mdl_parser: binding a module to a variable assignment *)

\* a template string is a sequence of pieces: literal text without braces,
\* or a placeholder, the text {{name}}
Lit(s) == [lit |-> s]
Var(name) == [var |-> name]
IsVar(piece) == "var" \in DOMAIN piece

\* variable values: str (a text), int, None
TextV(text) == [t |-> "str", v |-> text]
IntV(n) == [t |-> "int", v |-> n]
NoneV == [t |-> "none", v |-> 0]
DictV(d) == [t |-> "dict", v |-> d]

Equal(a, b) == a.t = b.t /\ a.v = b.v

\* bool(value)
Truthy(value) ==
    CASE value.t = "str" -> value.v # <<>>
      [] value.t = "int" -> value.v # 0
      [] value.t = "dict" -> DOMAIN value.v # {}
      [] OTHER -> FALSE

\* str(value) of a scalar
str(value) ==
    CASE value.t = "str" -> value.v
      [] value.t = "int" -> <<Lit(IF value.v = 3 THEN "3" ELSE "7")>>
      [] OTHER -> <<Lit("None")>>

\* replace_var: the text put in place of one {{name}}; the fallback of
\* variables.get is the plain string "{{var_name}}"
replace_var(name, variables) ==
    IF name \in DOMAIN variables THEN str(variables[name])
    ELSE <<Var("var_name")>>

RECURSIVE Sub(_, _)
\* var_pattern.sub(replace_var, text): one pass from left to right
Sub(text, variables) ==
    IF text = <<>> THEN <<>>
    ELSE (IF IsVar(Head(text)) THEN replace_var(Head(text).var, variables)
          ELSE <<Head(text)>>)
         \o Sub(Tail(text), variables)

\* conditions: Python expressions over the variable names
Empty == [kind |-> "empty"]                 \* ""
Malformed == [kind |-> "malformed"]         \* a syntax error, as in "mode =="
Name(id) == [kind |-> "name", id |-> id]    \* a bare name, as in "debug"
Compare(id, op, value) ==                   \* as in mode == "hard", level >= 5
    [kind |-> "compare", id |-> id, op |-> op, value |-> value]

\* names of safe_builtins whose value is truthy
safe_builtins == {"True", "len", "str", "int", "float", "bool"}

\* bool(eval(condition, safe_globals, {})), False when eval raises:
\* SyntaxError for an empty or malformed text, NameError for an unknown
\* name, TypeError for >= between a number and a str or None
eval_condition(condition, variables) ==
    CASE condition.kind \in {"empty", "malformed"} -> FALSE
      [] condition.kind = "name" ->
            IF condition.id \in DOMAIN variables
            THEN Truthy(variables[condition.id])
            ELSE condition.id \in safe_builtins
      [] condition.kind = "compare" ->
            /\ condition.id \in DOMAIN variables
            /\ LET x == variables[condition.id] IN
               IF condition.op = "==" THEN Equal(x, condition.value)
               ELSE /\ x.t = "int" /\ condition.value.t = "int"
                    /\ x.v >= condition.value.v

\* a block {{#if c1}} t1 {{else if c2}} t2 {{else}} t3 {{/if}}: its branches,
\* each a condition (None for else) and a content
IfBlock(branches) == [branches |-> branches]
IfBranch(cond, content) == [cond |-> cond, content |-> content]
IsIf(piece) == "branches" \in DOMAIN piece

RECURSIVE eval_if_block(_, _)
\* eval_if_block: the content of the first branch that is the else clause or
\* whose condition holds, the empty string when there is none
eval_if_block(branches, variables) ==
    IF branches = <<>> THEN <<>>
    ELSE IF \/ Head(branches).cond = None
            \/ eval_condition(Head(branches).cond[1], variables)
         THEN Head(branches).content
         ELSE eval_if_block(Tail(branches), variables)

RECURSIVE IfSub(_, _)
\* if_pattern.sub(eval_if_block, text)
IfSub(text, variables) ==
    IF text = <<>> THEN <<>>
    ELSE (IF IsIf(Head(text)) THEN eval_if_block(Head(text).branches, variables)
          ELSE <<Head(text)>>)
         \o IfSub(Tail(text), variables)

\* interpolate_template: the conditional blocks first, then the variables
interpolate_template(text, variables) ==
    IF text = <<>> THEN text ELSE Sub(IfSub(text, variables), variables)

\* the pure variable reference of a str value: re.match(r'^\{\{(\w+)\}\}$')
IsPureVar(text) == Len(text) = 1 /\ IsVar(text[1])

RECURSIVE interpolate_value(_, _)
\* _interpolate_value on a str, a dict or any other value
interpolate_value(value, var_dict) ==
    CASE value.t = "str" ->
            IF IsPureVar(value.v) /\ value.v[1].var \in DOMAIN var_dict
            THEN var_dict[value.v[1].var]
            ELSE TextV(interpolate_template(value.v, var_dict))
      [] value.t = "dict" ->
            DictV([k \in DOMAIN value.v |-> interpolate_value(value.v[k], var_dict)])
      [] OTHER -> value

\* Step with its condition field (None, or the expression)
ConditionalStep(id, action, params, condition) ==
    [id |-> id, action |-> action, params |-> params, condition |-> condition]

ModuleVariable(name, default) == [name |-> name, default |-> default]

\* dict.update
Updated(d, e) ==
    [k \in DOMAIN d \cup DOMAIN e |-> IF k \in DOMAIN e THEN e[k] ELSE d[k]]

RECURSIVE Defaults(_)
\* for var in module.variables: var_dict[var.name] = var.default
Defaults(declared) ==
    IF declared = <<>> THEN [k \in {} |-> NoneV]
    ELSE LET var == declared[Len(declared)] IN
         Updated(Defaults(SubSeq(declared, 1, Len(declared) - 1)),
                 [k \in {var.name} |-> var.default])

\* the complete variable dict of apply_variables
VarDict(module, variables) == Updated(Defaults(module.variables), variables)

RECURSIVE NewSteps(_, _)
\* the loop of apply_variables over module.steps
NewSteps(steps, var_dict) ==
    IF steps = <<>> THEN <<>>
    ELSE LET step == Head(steps)
             rest == NewSteps(Tail(steps), var_dict)
         IN IF /\ step.condition # None
               /\ step.condition[1] # Empty           \* if step.condition:
               /\ ~eval_condition(step.condition[1], var_dict)
            THEN rest
            ELSE <<ConditionalStep(step.id, step.action,
                                   interpolate_value(DictV(step.params), var_dict).v,
                                   None)>> \o rest

apply_variables(module, variables) ==
    LET var_dict == VarDict(module, variables) IN
    [module EXCEPT
        !.system_prompt = interpolate_template(module.system_prompt, var_dict),
        !.tools = [name \in DOMAIN module.tools |->
                      interpolate_value(DictV(module.tools[name]), var_dict).v],
        !.initial_state = interpolate_value(DictV(module.initial_state), var_dict).v,
        !.steps = NewSteps(module.steps, var_dict)]

\* inputs of apply_variables
NoDict == [k \in {} |-> NoneV]
Dict(key, value) == [k \in {key} |-> value]

Text(s) == TextV(<<Lit(s)>>)

\* condition fields of the steps handed to apply_variables
Conditions ==
    { None, Some(Empty), Some(Malformed), Some(Name("debug")),
      Some(Compare("mode", "==", Text("hard"))),
      Some(Compare("level", ">=", IntV(7))) }

\* the `content` of inject_user steps
Contents ==
    { Text("hi"), TextV(<<Var("mode")>>),
      TextV(<<Var("mode"), Lit(" to "), Var("who")>>),
      TextV(<<IfBlock(<<IfBranch(Some(Compare("level", ">=", IntV(7))),
                                 <<Lit("expert "), Var("level")>>),
                        IfBranch(None, <<Lit("novice")>>)>>)>>) }

\* the step at position i of a module: inject_user steps and await_agent steps alternate
StepsAt(i) ==
    { ConditionalStep(IF i = 1 THEN "b1" ELSE IF i = 2 THEN "b2" ELSE "b3",
                      IF i % 2 = 1 THEN "inject_user" ELSE "await_agent",
                      IF i % 2 = 1 THEN Dict("content", c) ELSE NoDict,
                      cond) : c \in IF i % 2 = 1 THEN Contents ELSE {NoneV},
                              cond \in Conditions }

RECURSIVE StepSeqs(_)
\* the step sequences of length n
StepSeqs(n) ==
    IF n = 0 THEN {<<>>}
    ELSE {q \o <<s>> : q \in StepSeqs(n - 1), s \in StepsAt(n)}

\* branches: none, or one branch whose step carries a condition
BindBranches ==
    { NoBranches,
      [n \in {"hard_path"} |->
          <<ConditionalStep("h1", "inject_user", Dict("content", Text("prove it")),
                            Some(Compare("mode", "==", Text("hard"))))>>] }

\* modules as load_module returns them: variables mode (default "easy") and
\* level (default 3)
BindModules ==
    { [id |-> "bound",
       variables |-> <<ModuleVariable("mode", Text("easy")),
                       ModuleVariable("level", IntV(3))>>,
       system_prompt |-> <<Lit("You play on "), Var("mode")>>,
       tools |-> Dict("shopify", Dict("difficulty", TextV(<<Var("level")>>))),
       initial_state |-> Dict("cash_balance", TextV(<<Var("level")>>)),
       steps |-> q, branches |-> b] :
      q \in UNION {StepSeqs(n) : n \in 0..MaxBindSteps}, b \in BindBranches }

\* the caller's bindings: from the command line (JSON values, or the raw
\* string) or from the start message of the websocket
Bindings ==
    { NoDict, Dict("mode", Text("hard")), Dict("level", IntV(7)),
      Dict("level", Text("7")), Dict("debug", IntV(7)),
      Dict("who", TextV(<<Var("mode")>>)) }

InitBind ==
    /\ runner = NewExecutor("AsyncRunner", Module("empty", <<>>, NoBranches), BaseAgent)
    /\ sessions = NoSessions
    /\ loop = None
    /\ last_call \in {Some([op |-> "load_module", module |-> m]) : m \in BindModules}

\* module = apply_variables(module, variables)
ApplyVariables ==
    /\ last_call[1].op = "load_module"
    /\ \E variables \in Bindings :
          last_call' = Some([op |-> "apply_variables",
                             module |-> last_call[1].module,
                             variables |-> variables,
                             result |-> apply_variables(last_call[1].module, variables)])
    /\ UNCHANGED <<runner, sessions, loop>>

\* the caller binds the bound module once more, to the same variables
ApplyVariablesAgain ==
    /\ last_call[1].op = "apply_variables"
    /\ last_call' = Some([op |-> "apply_variables_again",
                          module |-> last_call[1].module,
                          variables |-> last_call[1].variables,
                          result |-> last_call[1].result,
                          again |-> apply_variables(last_call[1].result,
                                                    last_call[1].variables)])
    /\ UNCHANGED <<runner, sessions, loop>>

NextBind == ApplyVariables \/ ApplyVariablesAgain

SpecBind == InitBind /\ [][NextBind]_vars

Applied == last_call[1].op = "apply_variables"

\* C19: the module returned by apply_variables has no step whose condition
\* is set, in `steps` and in every sequence of `branches`.
C19_NoConditionInBoundModule ==
    Applied =>
       LET m == last_call[1].result IN
       /\ \A i \in 1..Len(m.steps) : m.steps[i].condition = None
       /\ \A n \in DOMAIN m.branches :
             \A i \in 1..Len(m.branches[n]) : m.branches[n][i].condition = None

\* the assignment V: each declared variable at its default, overridden by
\* the caller's bindings
Assignment(module, variables) ==
    LET declared == {module.variables[i].name : i \in 1..Len(module.variables)}
        DefaultOfVar(n) ==
            (CHOOSE i \in 1..Len(module.variables) : module.variables[i].name = n)
    IN [n \in declared \cup DOMAIN variables |->
           IF n \in DOMAIN variables THEN variables[n]
           ELSE module.variables[DefaultOfVar(n)].default]

Ids(steps) == [i \in 1..Len(steps) |-> steps[i].id]

HasCondition(steps, c) == \E i \in 1..Len(steps) : steps[i].condition = c

\* C20: the bound steps are the original steps, in their order, whose
\* condition is absent or evaluates to true in V; a step whose condition is
\* false or malformed is absent (mode == "hard" under the default "easy" is
\* elided, and is kept when mode = "hard" is supplied).
C20_BoundStepsAreThoseThatHold ==
    Applied =>
       LET module == last_call[1].module
           V == Assignment(module, last_call[1].variables)
           Holds(step) == \/ step.condition = None
                          \/ eval_condition(step.condition[1], V)
       IN Ids(last_call[1].result.steps) = Ids(SelectSeq(module.steps, Holds))

\* the same for modules none of whose steps has the empty string as condition
NonEmptyConditionsAreFiltered ==
    (Applied /\ ~HasCondition(last_call[1].module.steps, Some(Empty))) =>
       LET module == last_call[1].module
           V == Assignment(module, last_call[1].variables)
           Holds(step) == \/ step.condition = None
                          \/ eval_condition(step.condition[1], V)
       IN Ids(last_call[1].result.steps) = Ids(SelectSeq(module.steps, Holds))

AppliedAgain == last_call[1].op = "apply_variables_again"

RECURSIVE Names(_)
\* the names of the placeholders {{name}} that occur in a template
Names(text) ==
    IF text = <<>> THEN {}
    ELSE LET piece == Head(text) IN
         (IF IsVar(piece) THEN {piece.var}
          ELSE IF IsIf(piece)
               THEN UNION {Names(piece.branches[i].content) :
                              i \in 1..Len(piece.branches)}
               ELSE {})
         \cup Names(Tail(text))

\* the template strings of a module: the system prompt, the values of the
\* tool configs and of initial_state, the content of the steps
Templates(module) ==
    {module.system_prompt}
    \cup {module.tools[t][k].v : t \in DOMAIN module.tools, k \in {"difficulty"}}
    \cup {module.initial_state[k].v : k \in DOMAIN module.initial_state}
    \cup {module.steps[i].params[k].v :
             i \in {j \in 1..Len(module.steps) : module.steps[j].action = "inject_user"},
             k \in {"content"}}

\* C21: when the assignment binds every {{name}} of every template,
\* interpolation is idempotent: a second pass with the same assignment
\* returns the result of the first unchanged, whatever the bound values are.
C21_InterpolationIdempotent ==
    (AppliedAgain /\ \A text \in Templates(last_call[1].module) :
                        Names(text) \subseteq
                           DOMAIN VarDict(last_call[1].module, last_call[1].variables))
       => last_call[1].again = last_call[1].result

\* a bound value is itself a placeholder
BindsPlaceholder(variables) ==
    \E n \in DOMAIN variables :
       variables[n].t = "str" /\ \E i \in 1..Len(variables[n].v) : IsVar(variables[n].v[i])

\* the same when no bound value contains a placeholder
PlainValuesInterpolateOnce ==
    (AppliedAgain /\ ~BindsPlaceholder(last_call[1].variables)
       /\ \A text \in Templates(last_call[1].module) :
             Names(text) \subseteq
                DOMAIN VarDict(last_call[1].module, last_call[1].variables))
       => last_call[1].again = last_call[1].result

RECURSIVE Substituted(_, _)
\* a text with its bound placeholders substituted and the others left in place
Substituted(text, V) ==
    IF text = <<>> THEN <<>>
    ELSE (IF IsVar(Head(text)) /\ Head(text).var \in DOMAIN V
          THEN str(V[Head(text).var])
          ELSE <<Head(text)>>)
         \o Substituted(Tail(text), V)

\* C22: a string with a placeholder {{name}} whose name has no binding is
\* interpolated without an error; that placeholder stays in the output under
\* its own name, and the bound placeholders of the string are substituted.
C22_UnboundPlaceholderStays ==
    Applied =>
       LET module == last_call[1].module
           V == VarDict(module, last_call[1].variables)
           bound == last_call[1].result.steps
       IN \A i \in 1..Len(module.steps), j \in 1..Len(bound) :
             (/\ module.steps[i].id = bound[j].id
              /\ module.steps[i].action = "inject_user"
              /\ ~(Names(module.steps[i].params["content"].v) \subseteq DOMAIN V))
             => bound[j].params["content"] =
                   TextV(Substituted(IfSub(module.steps[i].params["content"].v, V), V))

----------------------------------------------------------------------------
(* mdl_parser: validate_module *)

\* a YAML file: the steps (id, action, branch_name), the names of the
\* branches, the evaluation checks (name, kind), and what is wrong with the
\* file as a whole
RawStep(id, action, branch_name) ==
    [id |-> id, action |-> action, branch_name |-> branch_name]
RawCheck(name, kind) == [name |-> name, kind |-> kind]

\* load_module: the ModuleSpec, or the exception raised: MDLParseError for
\* invalid YAML and for a mapping without `id`, KeyError for a step
\* without `id`
load_module(file) ==
    CASE file.fault \in {"invalid_yaml", "no_id"} ->
            [raised |-> Some("MDLParseError"), module |-> None]
      [] file.fault = "step_without_id" ->
            [raised |-> Some("KeyError"), module |-> None]
      [] OTHER -> [raised |-> None, module |-> Some(file)]

valid_actions == {"inject_user", "await_user", "await_agent", "branch", "tool_call"}
valid_kinds == {"deterministic", "llm"}

\* the three loops of validate_module, each over the sequence q
InvalidActions(q) ==
    SelectSeq(q, LAMBDA step : step.action \notin valid_actions)

UnknownBranches(q, branches) ==
    SelectSeq(q, LAMBDA step : /\ step.action = "branch"
                               /\ step.branch_name # None
                               /\ step.branch_name[1] \notin branches)

InvalidKinds(q) ==
    SelectSeq(q, LAMBDA check : check.kind \notin valid_kinds)

Errors(what, q) == [i \in 1..Len(q) |-> [error |-> what, of |-> q[i].id]]

validate_module(file) ==
    LET loaded == load_module(file) IN
    IF loaded.raised = Some("MDLParseError")
    THEN [raised |-> None, errors |-> <<[error |-> "parse", of |-> file.fault]>>]
    ELSE IF loaded.raised # None
    THEN [raised |-> loaded.raised, errors |-> <<>>]
    ELSE LET module == loaded.module[1] IN
         [raised |-> None,
          errors |->
             Errors("invalid action", InvalidActions(module.steps))
             \o Errors("unknown branch",
                       UnknownBranches(module.steps, module.branches))
             \o [i \in 1..Len(InvalidKinds(module.evaluation)) |->
                    [error |-> "invalid kind",
                     of |-> InvalidKinds(module.evaluation)[i].name]]]

\* the steps a file may have at position i
RawStepsAt(i) ==
    { RawStep(IF i = 1 THEN "v1" ELSE IF i = 2 THEN "v2" ELSE "v3", a, b) :
         a \in {"inject_user", "teleport"}, b \in {None} }
    \cup { RawStep(IF i = 1 THEN "v1" ELSE IF i = 2 THEN "v2" ELSE "v3", "branch", b) :
              b \in {None, Some("esc"), Some("nowhere")} }

RECURSIVE RawSteps(_)
RawSteps(n) ==
    IF n = 0 THEN {<<>>}
    ELSE {q \o <<s>> : q \in RawSteps(n - 1), s \in RawStepsAt(n)}

CheckNames == <<"A", "B", "C", "D">>
CheckKinds == {"deterministic", "llm", "contains", "vibes"}

RECURSIVE RawChecks(_)
RawChecks(n) ==
    IF n = 0 THEN {<<>>}
    ELSE {q \o <<RawCheck(CheckNames[n], k)>> : q \in RawChecks(n - 1), k \in CheckKinds}

\* the module files with at most max_steps steps and max_checks checks
Files(max_steps, max_checks) ==
    { [fault |-> f, steps |-> q, branches |-> {"esc"}, evaluation |-> e] :
         f \in {"none", "invalid_yaml", "no_id", "step_without_id"},
         q \in UNION {RawSteps(n) : n \in 0..max_steps},
         e \in UNION {RawChecks(n) : n \in 0..max_checks} }

InitValidate ==
    /\ runner = NewExecutor("AsyncRunner", Module("empty", <<>>, NoBranches), BaseAgent)
    /\ sessions = NoSessions
    /\ loop = None
    /\ last_call \in {Some([op |-> "file", file |-> f]) : f \in Files(MaxBindSteps, MaxChecks)}

\* errors = validate_module(path)
ValidateModule ==
    /\ last_call[1].op = "file"
    /\ LET out == validate_module(last_call[1].file) IN
       last_call' = Some([op |-> "validate_module", file |-> last_call[1].file,
                          raised |-> out.raised, errors |-> out.errors])
    /\ UNCHANGED <<runner, sessions, loop>>

NextValidate == ValidateModule

SpecValidate == InitValidate /\ [][NextValidate]_vars

\* the check kinds of the data model
RecognizedKinds ==
    {"contains", "regex", "count", "tool_called", "equals", "env_state",
     "deterministic", "llm"}

OffendingStep(step, branches) ==
    \/ step.action \notin valid_actions
    \/ step.action = "branch" /\ (step.branch_name = None \/ step.branch_name[1] \notin branches)

Offenders(file) ==
    Len(SelectSeq(file.steps, LAMBDA step : OffendingStep(step, file.branches)))
    + Len(SelectSeq(file.evaluation, LAMBDA check : check.kind \notin RecognizedKinds))

\* C23: validate never raises; it returns the empty list exactly when every
\* step action is allowed, every branch step names a key of branches and
\* every check kind is one of the eight kinds of the data model, and one
\* message per offending step or check otherwise.
C23_ValidateReportsOffenders ==
    last_call[1].op = "validate_module" =>
       /\ last_call[1].raised = None
       /\ last_call[1].file.fault = "none" =>
             Len(last_call[1].errors) = Offenders(last_call[1].file)
       /\ last_call[1].file.fault # "none" => last_call[1].errors # <<>>

----------------------------------------------------------------------------
(* AsyncRunner: evaluation checks and score *)

\* float values, as fractions <<numerator, denominator>> in lowest terms with
\* a positive denominator
Abs(n) == IF n < 0 THEN -n ELSE n

RECURSIVE Gcd(_, _)
Gcd(a, b) == IF b = 0 THEN a ELSE Gcd(b, a % b)

Frac(n, d) ==
    LET g == Gcd(Abs(n), Abs(d))
        s == IF d < 0 THEN -1 ELSE 1
    IN <<(s * n) \div g, (s * d) \div g>>

Float(n) == <<n, 1>>
FAdd(x, y) == Frac(x[1] * y[2] + y[1] * x[2], x[2] * y[2])
FSub(x, y) == Frac(x[1] * y[2] - y[1] * x[2], x[2] * y[2])
FMul(x, y) == Frac(x[1] * y[1], x[2] * y[2])
\* x / y for y # 0
FDiv(x, y) == Frac(x[1] * y[2], x[2] * y[1])
FLess(x, y) == x[1] * y[2] < y[1] * x[2]
FMax(x, y) == IF FLess(x, y) THEN y ELSE x
FMin(x, y) == IF FLess(y, x) THEN y ELSE x

\* a key or target string, split at its dots: "a.b" is <<"a", "b">>
\* dict.get(key): the value under the whole key, None when there is none
Get(d, key) == IF key \in DOMAIN d THEN d[key] ELSE NoneV

RECURSIVE get_nested_value(_, _)
\* _get_nested_value(obj, path), keys = path.split(".")
get_nested_value(obj, keys) ==
    IF keys = <<>> THEN obj
    ELSE IF obj.t = "none" THEN NoneV
    ELSE IF obj.t = "dict"
         THEN get_nested_value(Get(obj.v, <<Head(keys)>>), Tail(keys))
         ELSE NoneV

RECURSIVE Join(_)
\* " ".join(contents)
Join(contents) ==
    IF contents = <<>> THEN <<>>
    ELSE IF Len(contents) = 1 THEN contents[1]
    ELSE contents[1] \o <<" ">> \o Join(Tail(contents))

ContentsOf(history, roles) ==
    LET q == SelectSeq(history, LAMBDA msg : msg.role \in roles) IN
    [i \in 1..Len(q) |-> q[i].content]

\* the content of the last message of the role, "" when there is none
LastOf(history, role) ==
    LET q == ContentsOf(history, {role}) IN
    IF q = <<>> THEN <<>> ELSE q[Len(q)]

\* a _get_target_text whose last_agent_message is the last thing the agent
\* said: assistant messages without content (tool calls) are passed over
get_target_text_uttered(history, target) ==
    IF target = "last_agent_message"
    THEN LET q == SelectSeq(ContentsOf(history, {"assistant"}),
                            LAMBDA content : content # <<>>)
         IN IF q = <<>> THEN <<>> ELSE q[Len(q)]
    ELSE <<>>

\* _get_target_text
get_target_text(history, target) ==
    CASE target = "agent_messages" -> Join(ContentsOf(history, {"assistant"}))
      [] target = "user_messages" -> Join(ContentsOf(history, {"user"}))
      [] target = "all_messages" ->
            Join(ContentsOf(history, {"assistant", "user", "tool", "system"}))
      [] target = "last_agent_message" -> LastOf(history, "assistant")
      [] target = "last_user_message" -> LastOf(history, "user")
      [] OTHER -> <<>>

\* EvaluationCheck: name, kind and the fields of its kind
Check(name, kind, target, key, value, expr) ==
    [name |-> name, kind |-> kind, target |-> target, key |-> key, value |-> value,
     expr |-> expr]

\* the result dict of a check: the keys it has
Result(passed, value, actual, status, error) ==
    [passed |-> passed, value |-> value, actual |-> actual,
     status |-> status, error |-> error]

\* _check_contains: value.lower() raises AttributeError unless value is a str
check_contains(r, check) ==
    IF check.value.t \notin {"str", "none"}
    THEN [raised |-> Some("AttributeError"), result |-> None]
    ELSE LET text == get_target_text(r.history, OrElse(check.target, <<"agent_messages">>)[1])
             value == IF check.value.t = "none" THEN <<>> ELSE check.value.v
             found == value = <<>> \/ \E i \in 1..Len(text) : <<text[i]>> = value
         IN [raised |-> None,
             result |-> Some(Result(Some(found), None, None, None, None))]

\* _check_equals
check_equals(r, check) ==
    LET target == OrElse(check.target, <<"">>)
        actual_value ==
            IF Len(target) > 1 /\ target[1] = "env"        \* startswith("env.")
            THEN Get(r.env_state, Tail(target))
            ELSE TextV(get_target_text(r.history, target[1]))
    IN Result(Some(Equal(actual_value, check.value)), None, Some(actual_value),
              None, None)

\* _check_env_state
check_env_state(r, check) ==
    LET key == OrElse(check.key, <<"">>)
        actual_value ==
            IF Len(key) > 1                                  \* "." in key
            THEN get_nested_value(DictV(r.env_state), key)
            ELSE Get(r.env_state, key)
    IN Result(Some(Equal(actual_value, check.value)), None, Some(actual_value),
              None, None)

\* _check_deterministic without pass_if, for an expression env_state[key]
\* (expr is that key); its own except clause answers the KeyError
check_deterministic(r, check) ==
    IF check.expr = None
    THEN Result(None, None, None, Some("skipped"), None)
    ELSE IF check.expr[1] \notin DOMAIN r.env_state
    THEN Result(None, None, None, Some("error"), Some("KeyError"))
    ELSE Result(None, Some(r.env_state[check.expr[1]]), None, None, None)

\* a check that counts an exception as a failed check
run_check_failed(r, check) ==
    IF check.kind = "contains" /\ check_contains(r, check).raised # None
    THEN Result(Some(FALSE), None, None, Some("error"), check_contains(r, check).raised)
    ELSE IF check.kind = "deterministic"
    THEN [check_deterministic(r, check) EXCEPT
             !.passed = IF @ = None /\ check_deterministic(r, check).status = Some("error")
                        THEN Some(FALSE) ELSE @]
    ELSE IF check.kind = "equals" THEN check_equals(r, check)
    ELSE IF check.kind = "env_state" THEN check_env_state(r, check)
    ELSE IF check.kind = "contains" THEN check_contains(r, check).result[1]
    ELSE Result(None, None, None, Some("skipped"), None)

\* _run_check
run_check(r, check) ==
    CASE check.kind = "contains" ->
            LET out == check_contains(r, check) IN
            IF out.raised # None
            THEN Result(None, None, None, Some("error"), out.raised)
            ELSE out.result[1]
      [] check.kind = "equals" -> check_equals(r, check)
      [] check.kind = "env_state" -> check_env_state(r, check)
      [] check.kind = "deterministic" -> check_deterministic(r, check)
      [] check.kind = "llm" -> Result(None, None, None, Some("skipped"), None)
      [] OTHER -> Result(None, None, None, Some("error"), Some("Unknown check kind"))

\* the names of a sequence of checks, in order, each once
RECURSIVE NamesIn(_)
NamesIn(evaluation) ==
    IF evaluation = <<>> THEN <<>>
    ELSE LET rest == NamesIn(SubSeq(evaluation, 1, Len(evaluation) - 1))
             name == evaluation[Len(evaluation)].name
         IN IF \E i \in 1..Len(rest) : rest[i] = name THEN rest
            ELSE Append(rest, name)

\* the dict checks of _evaluate: a later check replaces an earlier one of
\* the same name
RunChecks(r, evaluation) ==
    [name \in {evaluation[i].name : i \in 1..Len(evaluation)} |->
        LET last == CHOOSE i \in 1..Len(evaluation) :
                       /\ evaluation[i].name = name
                       /\ \A j \in (i + 1)..Len(evaluation) : evaluation[j].name # name
        IN run_check(r, evaluation[last])]

\* check_values of _compute_score: the numeric value of every result that has one
CheckValues(checks) ==
    LET numeric == {name \in DOMAIN checks :
                      \/ checks[name].passed # None
                      \/ checks[name].value # None /\ checks[name].value[1].t = "int"}
    IN [name \in numeric |->
           IF checks[name].passed = Some(TRUE) THEN Float(1)
           ELSE IF checks[name].passed = Some(FALSE) THEN Float(0)
           ELSE Float(checks[name].value[1].v)]

RECURSIVE WeightedSum(_, _, _)
\* the sum of weight[name] * f[name] over the names
WeightedSum(names, weight, f) ==
    IF names = {} THEN Float(0)
    ELSE LET n == CHOOSE x \in names : TRUE IN
         FAdd(FMul(weight[n], f[n]), WeightedSum(names \ {n}, weight, f))

\* an average that gives every check the weight 1
weighted_average_unweighted(values, weights) ==
    LET one == [name \in DOMAIN values |-> Float(1)] IN
    IF DOMAIN values = {} THEN Float(0)
    ELSE FDiv(WeightedSum(DOMAIN values, one, values),
              WeightedSum(DOMAIN values, one, one))

\* _weighted_average
weighted_average(values, weights) ==
    LET weight == [name \in DOMAIN values |->
                      IF name \in DOMAIN weights THEN weights[name] ELSE Float(1)]
        one == [name \in DOMAIN values |-> Float(1)]
        total == WeightedSum(DOMAIN values, weight, values)
        total_weight == WeightedSum(DOMAIN values, weight, one)
    IN IF DOMAIN values = {} THEN Float(0)
       ELSE IF FLess(Float(0), total_weight) THEN FDiv(total, total_weight)
       ELSE Float(0)

\* score formulas: a sum of products coefficient * name, a quotient of two
\* names, a text that is no expression
Linear(terms) == [kind |-> "linear", terms |-> terms]
Quotient(a, b) == [kind |-> "quotient", a |-> a, b |-> b]
NoExpression == [kind |-> "malformed"]

RECURSIVE LinearValue(_, _)
LinearValue(terms, values) ==
    IF terms = <<>> THEN Float(0)
    ELSE FAdd(FMul(Float(Head(terms)[1]), values[Head(terms)[2]]),
              LinearValue(Tail(terms), values))

\* _eval_score_formula: float(eval(formula, context, {})), or what it raises
eval_score_formula(formula, check_values) ==
    CASE formula.kind = "malformed" -> [raised |-> Some("SyntaxError"), value |-> None]
      [] formula.kind = "linear" ->
            IF \E i \in 1..Len(formula.terms) : formula.terms[i][2] \notin DOMAIN check_values
            THEN [raised |-> Some("NameError"), value |-> None]
            ELSE [raised |-> None,
                  value |-> Some(LinearValue(formula.terms, check_values))]
      [] formula.kind = "quotient" ->
            IF {formula.a, formula.b} \subseteq DOMAIN check_values
            THEN IF check_values[formula.b] = Float(0)
                 THEN [raised |-> Some("ZeroDivisionError"), value |-> None]
                 ELSE [raised |-> None,
                       value |-> Some(FDiv(check_values[formula.a],
                                           check_values[formula.b]))]
            ELSE [raised |-> Some("NameError"), value |-> None]

ScoringConfig(formula, weights, normalize, min_score, max_score) ==
    [formula |-> formula, weights |-> weights, normalize |-> normalize,
     min_score |-> min_score, max_score |-> max_score]

\* a score that is rescaled and not clamped
compute_score_unclamped(scoring, checks) ==
    LET check_values == CheckValues(checks)
        average == weighted_average(check_values, scoring.weights)
        out == IF scoring.formula = None THEN [raised |-> None, value |-> None]
               ELSE eval_score_formula(scoring.formula[1], check_values)
        score == IF scoring.formula # None /\ out.raised = None
                 THEN out.value[1] ELSE average
    IN IF scoring.normalize /\ scoring.max_score # scoring.min_score
       THEN FDiv(FSub(score, scoring.min_score),
                 FSub(scoring.max_score, scoring.min_score))
       ELSE score

\* _compute_score
compute_score(scoring, checks) ==
    LET check_values == CheckValues(checks)
        average == weighted_average(check_values, scoring.weights)
        out == IF scoring.formula = None THEN [raised |-> None, value |-> None]
               ELSE eval_score_formula(scoring.formula[1], check_values)
        score == IF scoring.formula # None /\ out.raised = None
                 THEN out.value[1] ELSE average
    IN IF scoring.normalize /\ scoring.max_score # scoring.min_score
       THEN FMax(Float(0),
                 FMin(Float(1),
                      FDiv(FSub(score, scoring.min_score),
                           FSub(scoring.max_score, scoring.min_score))))
       ELSE score

\* AsyncRunner._evaluate
evaluate(r, module) ==
    LET checks == RunChecks(r, module.evaluation) IN
    [checks |-> checks, score |-> compute_score(module.scoring, checks),
     num_events |-> Len(r.events), status |-> "ok"]

\* inputs of the evaluation: env_state at the end of a run
Key(name) == <<name>>

FinalEnvStates ==
    { [k \in {Key("cash"), Key("a")} |->
          IF k = Key("cash") THEN IntV(3) ELSE DictV([j \in {Key("b")} |-> IntV(b)])] :
         b \in {1, 2} }
    \cup { [k \in {<<"a", "b">>} |-> IntV(1)] }

\* the checks a module may have under one name
ChecksNamed(name) ==
    { Check(name, "env_state", None, Some(<<"a", "b">>), IntV(1), None),
      Check(name, "equals", Some(<<"env", "a", "b">>), None, IntV(1), None),
      Check(name, "deterministic", None, None, NoneV, Some(Key("cash"))),
      Check(name, "contains", None, None, IntV(5), None),
      Check(name, "llm", None, None, NoneV, None) }

RECURSIVE Evaluations(_)
\* the sequences of n checks
Evaluations(n) ==
    IF n = 0 THEN {<<>>}
    ELSE {q \o <<c>> : q \in Evaluations(n - 1), c \in ChecksNamed(CheckNames[n])}

Scorings ==
    { ScoringConfig(f, w, c[1], Float(c[2]), Float(c[3])) :
         f \in {None, Some(Linear(<<<<2, "A">>, <<1, "B">>, <<3, "C">>>>)),
                Some(Quotient("A", "B")), Some(NoExpression)},
         w \in {[n \in {} |-> Float(1)], [n \in {"A"} |-> Float(2)],
                [n \in {"A"} |-> Float(0)]},
         c \in {<<FALSE, 0, 100>>, <<TRUE, 0, 10>>, <<TRUE, 5, 5>>} }

InitEvaluate ==
    /\ runner = NewExecutor("AsyncRunner", Module("empty", <<>>, NoBranches), BaseAgent)
    /\ sessions = NoSessions
    /\ loop = None
    /\ last_call \in
          {Some([op |-> "run",
                 module |-> [evaluation |-> e, scoring |-> s],
                 r |-> [history |-> <<>>, events |-> <<>>, env_state |-> env]]) :
              e \in UNION {Evaluations(n) : n \in 0..MaxChecks},
              s \in Scorings, env \in FinalEnvStates}

\* evaluation = self._evaluate() at the end of run()
Evaluate ==
    /\ last_call[1].op = "run"
    /\ last_call' = Some([op |-> "evaluate",
                          module |-> last_call[1].module,
                          r |-> last_call[1].r,
                          evaluation |-> evaluate(last_call[1].r, last_call[1].module)])
    /\ UNCHANGED <<runner, sessions, loop>>

NextEvaluate == Evaluate

SpecEvaluate == InitEvaluate /\ [][NextEvaluate]_vars

Evaluated == last_call[1].op = "evaluate"

\* the scoring of the evaluated module rescales the score
Rescaled ==
    /\ last_call[1].module.scoring.normalize
    /\ last_call[1].module.scoring.max_score # last_call[1].module.scoring.min_score

\* C24: with scoring.formula set, the score is the formula evaluated with
\* each check's numeric value bound to the check's name; when the formula
\* fails (and when there is none) it is the weighted average sum(w*n)/sum(w),
\* weight 1 for a check without an entry in weights, and 0 for an empty vector.
C24_FormulaElseWeightedAverage ==
    (Evaluated /\ ~Rescaled) =>
       LET scoring == last_call[1].module.scoring
           score == last_call[1].evaluation.score
           N == CheckValues(last_call[1].evaluation.checks)
           w == [name \in DOMAIN N |->
                    IF name \in DOMAIN scoring.weights THEN scoring.weights[name]
                    ELSE Float(1)]
           one == [name \in DOMAIN N |-> Float(1)]
           failed == \/ scoring.formula = None
                     \/ eval_score_formula(scoring.formula[1], N).raised # None
       IN /\ ~failed => score = eval_score_formula(scoring.formula[1], N).value[1]
          /\ (failed /\ DOMAIN N = {}) => score = Float(0)
          /\ (failed /\ FLess(Float(0), WeightedSum(DOMAIN N, w, one))) =>
                FMul(score, WeightedSum(DOMAIN N, w, one)) = WeightedSum(DOMAIN N, w, N)

\* checks A, B, C with the values 1, 0, 1 and the formula A*2 + B + C*3:
\* the score is 5
C24_Witness ==
    /\ Evaluated /\ ~Rescaled
    /\ last_call[1].module.scoring.formula =
          Some(Linear(<<<<2, "A">>, <<1, "B">>, <<3, "C">>>>))
    /\ CheckValues(last_call[1].evaluation.checks) =
          [n \in {"A", "B", "C"} |-> IF n = "B" THEN Float(0) ELSE Float(1)]
    /\ last_call[1].evaluation.score = Float(5)

InUnitInterval(score) == ~FLess(score, Float(0)) /\ ~FLess(Float(1), score)

\* C25: whenever scoring.normalize is true the final score lies in [0,1],
\* for every min_score, max_score, check results, weights and formula.
C25_NormalizedScoreInUnitInterval ==
    (Evaluated /\ last_call[1].module.scoring.normalize)
       => InUnitInterval(last_call[1].evaluation.score)

\* C25 as the code has it: the score lies in [0,1] whenever normalize is
\* true and max_score differs from min_score; with max_score = min_score the
\* score is left as it is
C25_RescaledScoreInUnitInterval ==
    /\ (Evaluated /\ Rescaled) => InUnitInterval(last_call[1].evaluation.score)
    /\ (Evaluated /\ last_call[1].module.scoring.normalize /\ ~Rescaled) =>
          last_call[1].evaluation.score =
             compute_score([last_call[1].module.scoring EXCEPT !.normalize = FALSE],
                           last_call[1].evaluation.checks)

\* the formula gives 5 and min_score = 0, max_score = 10: the score is 1/2
C25_Witness ==
    /\ Evaluated /\ Rescaled
    /\ last_call[1].module.scoring.formula # None
    /\ last_call[1].evaluation.score = Frac(1, 2)

\* the evaluation of a check raises: _check_contains for a value that is no
\* str, the expression of a deterministic check for a missing key
Raises(r, check) ==
    \/ check.kind = "contains" /\ check.value.t \notin {"str", "none"}
    \/ check.kind = "deterministic" /\ check.expr # None
                                     /\ check.expr[1] \notin DOMAIN r.env_state

\* C26: a check whose evaluation raises yields {status: "error", error:
\* message} and contributes nothing to the score, neither to the numerator
\* nor to the weight sum; every other check is still run and recorded under
\* its name.
C26_RaisingCheckIsRecordedAndSkipped ==
    Evaluated =>
       LET r == last_call[1].r
           evaluation == last_call[1].module.evaluation
           checks == last_call[1].evaluation.checks
           others == SelectSeq(evaluation, LAMBDA check : ~Raises(r, check))
       IN /\ DOMAIN checks = {evaluation[i].name : i \in 1..Len(evaluation)}
          /\ \A i \in 1..Len(evaluation) :
                IF Raises(r, evaluation[i])
                THEN /\ checks[evaluation[i].name].status = Some("error")
                     /\ checks[evaluation[i].name].error # None
                     /\ checks[evaluation[i].name].passed = None
                     /\ checks[evaluation[i].name].value = None
                     /\ evaluation[i].name \notin DOMAIN CheckValues(checks)
                ELSE checks[evaluation[i].name].status # Some("error")
          /\ last_call[1].evaluation.score =
                compute_score(last_call[1].module.scoring, RunChecks(r, others))

\* check A raised, check B passed and check C failed: the score is the
\* average of B and C
C26_Witness ==
    /\ Evaluated /\ ~Rescaled
    /\ Len(last_call[1].module.evaluation) = 3
    /\ Raises(last_call[1].r, last_call[1].module.evaluation[1])
    /\ last_call[1].module.scoring.formula = None
    /\ last_call[1].evaluation.checks["A"].status = Some("error")
    /\ last_call[1].evaluation.checks["B"].passed = Some(TRUE)
    /\ last_call[1].evaluation.checks["C"].passed = Some(FALSE)
    /\ last_call[1].evaluation.score = Frac(1, 2)

\* C27: an equals check with the target env.<dotted-path> reads the nested
\* env_state value at that path (env.a.b reads env_state[a][b]) and passes
\* exactly when that value equals the check's value.
C27_EqualsReadsNestedEnvState ==
    Evaluated =>
       \A i \in 1..Len(last_call[1].module.evaluation) :
          LET check == last_call[1].module.evaluation[i]
              result == last_call[1].evaluation.checks[check.name]
              nested == get_nested_value(DictV(last_call[1].r.env_state),
                                         Tail(check.target[1]))
          IN (check.kind = "equals" /\ check.target # None
                /\ Len(check.target[1]) > 1 /\ check.target[1][1] = "env")
             => /\ result.actual = Some(nested)
                /\ result.passed = Some(Equal(nested, check.value))

----------------------------------------------------------------------------
(* the await_agent sub-loop against agents that fail: tools that fail, tools
   that do not exist, a step that raises *)

\* what one call of step of such an agent may do
AgentTurns(id_mode) ==
    { AgentAction("message", Some(<<"ok">>), None, None, None, id_mode),
      AgentAction("tool_call", None, Some("shopify"), Some("get_order"),
                  Some(Args(StrV("ORD999"))), id_mode),
      AgentAction("tool_call", None, Some("crm"), Some("lookup"),
                  Some(Args(StrV("ORD123"))), id_mode),
      StepRaises(id_mode) }

\* two await_agent steps and a step after them
AgentModule ==
    Module("support", <<InjectUser("s1", "hi"), AwaitAgent("s2"),
                        AwaitAgent("s3"), InjectUser("s4", "bye")>>, NoBranches)

InitAgent ==
    /\ \E i \in {"undeclared", "none"} :
          runner \in {NewExecutor(k, AgentModule, ScriptedAgent(i, script, l)) :
                         k \in {"Runner", "AsyncRunner"},
                         script \in [1..MaxAgentChoices -> AgentTurns(i)],
                         l \in 1..MaxAgentChoices}
    /\ sessions = NoSessions
    /\ loop = None
    /\ last_call = None

NextAgent ==
    \/ CallRun
    \/ RunnerStep
    \/ RunnerAgentTurn
    \/ AsyncStart
    \/ AsyncStep
    \/ AsyncAgentTurn

SpecAgent == InitAgent /\ [][NextAgent]_vars

\* the latest await_agent sub-loop of the AsyncRunner was left at the cap:
\* max_tool_calls tool calls and no other answer of the agent
LeftAtCap ==
    /\ runner.kind = "AsyncRunner" /\ Called
    /\ runner.runs[1].pc \in {"loop", "done"}
    /\ runner.state # "error"
    /\ runner.runs[1].tool_call_count = max_tool_calls
    /\ runner.runs[1].turns = [i \in 1..max_tool_calls |-> "tool_call"]

\* C28: after an await_agent sub-loop that was left at the tool-call cap
\* without a message of the agent, the target last_agent_message of the
\* evaluator is the empty string, also when the agent said something in an
\* earlier step.
C28_LastAgentMessageEmptyAfterCap ==
    LeftAtCap => get_target_text(runner.history, "last_agent_message") = <<>>

\* the run is over after a sub-loop left at the cap, and the agent had said
\* "ok" in the step before
C28_Witness ==
    /\ LeftAtCap
    /\ runner.runs[1].pc = "done"
    /\ \E i \in 1..Len(runner.history) :
          /\ runner.history[i].role = "assistant"
          /\ runner.history[i].content = <<"ok">>
    /\ get_target_text(runner.history, "agent_messages") # <<>>

\* the latest call of agent.step by the AsyncRunner raised
AgentRaised ==
    /\ runner.kind = "AsyncRunner" /\ Called
    /\ runner.runs[1].turns # <<>>
    /\ runner.runs[1].turns[Len(runner.runs[1].turns)] = "raise"

\* the latest event the stream of run() has yielded
LastYielded == runner.runs[1].out[Len(runner.runs[1].out)]

\* C29: when the agent raises during an await_agent step, the executor yields
\* an event that carries a readable error text as the agent's message and goes
\* on with the remaining steps: the executor is not in the error state and
\* the stream of run() has not ended with an `error` event.
C29_AgentFailureDoesNotEndTheRun ==
    AgentRaised =>
        /\ runner.state # "error"
        /\ runner.runs[1].out # <<>>
        /\ LastYielded.type # "error"
        /\ \/ runner.runs[1].pc # "done"
           \/ \A i \in 1..Len(runner.module.steps) :
                 runner.module.steps[i].id \in
                    {runner.runs[1].executed[j] : j \in 1..Len(runner.runs[1].executed)}

\* the agent is about to be asked and will answer with a call of a tool that
\* fails (get_order of an order that does not exist returns success=false)
\* or that the module does not have
AsksForFailingTool ==
    /\ Called /\ Pc(1) = "agent"
    /\ \E action \in AgentStep(runner.agent) : action.type = "tool_call"

\* the step from r to r2 handled a failing tool call as the contract has it:
\* the tool_call event is followed by a tool_result event with the failure,
\* the history ends with the tool message whose content is the error string,
\* the call is counted, and the agent is asked again unless the cap is reached
FailureHandled(r, r2) ==
    LET n == Len(r2.events)
        h == Len(r2.history)
    IN /\ n = Len(r.events) + 2
       /\ r2.events[n - 1].type = "tool_call"
       /\ r2.events[n].type = "tool_result"
       /\ r2.events[n].payload.result.success = FALSE
       /\ r2.events[n].payload.result.error # None
       /\ h = Len(r.history) + 2
       /\ r2.history[h].role = "tool"
       /\ r2.history[h].content = r2.events[n].payload.result.error[1]
       /\ r2.runs[1].exc = None
       /\ r2.state # "error"
       /\ r2.runs[1].tool_call_count = r.runs[1].tool_call_count + 1
       /\ IF r2.runs[1].tool_call_count < max_tool_calls
          THEN r2.runs[1].pc = "agent"
          ELSE r2.runs[1].pc = "loop"

\* C30: when the agent asks for a tool that returns success=false or that does
\* not exist, a tool_result event with the failure is emitted, the history
\* receives a tool message with the error string, the agent is asked again,
\* and the failed call counts towards the tool-call cap.
C30_FailingToolCallIsReportedAndCounted ==
    [][AsksForFailingTool => FailureHandled(runner, runner')]_vars

\* the same for the action objects that have a tool_call_id attribute, and
\* for the synchronous Runner, which never reads the attribute
FailingToolCallHandledWhenIdDeclared ==
    [][AsksForFailingTool
          /\ (runner.kind = "Runner" \/ runner.agent.id_mode # "undeclared")
       => FailureHandled(runner, runner')]_vars

----------------------------------------------------------------------------
(* the executors on steps that are not inject_user, await_agent or branch *)

\* the steps of a module: those of `steps` and those of its branches
StepsIn(module) ==
    {module.steps[i] : i \in 1..Len(module.steps)}
    \cup UNION {{module.branches[n][i] : i \in 1..Len(module.branches[n])} :
                   n \in DOMAIN module.branches}

\* the loop of run() has gone past the step at position i of its trace: a
\* later step was begun
WentPast(i) == i < Len(runner.runs[1].executed)

\* C31: an executor refuses to run a module with a step whose action is not
\* a known step action: the loop of run() never goes past such a step to the
\* steps that follow it.
C31_UnknownActionIsRefused ==
    Called =>
        \A i \in 1..Len(runner.runs[1].executed) :
           \A step \in StepsIn(runner.module) :
              step.id = runner.runs[1].executed[i] /\ WentPast(i)
                 => step.action \in valid_actions

\* the loop of run() is at a tool_call step
AtDirectToolCall ==
    /\ Called /\ Pc(1) = "loop" /\ ~AtEnd(runner, 1)
    /\ CurStep(runner, 1).action = "tool_call"

\* the step from r to r2 ran the tool_call step `step` as the contract has it:
\* a tool_call event naming the step's tool, action and args, then one
\* tool_result event, the history as it was, and the loop at the next step
DirectCallDone(r, r2, step) ==
    LET n == Len(r2.events) IN
    /\ n = Len(r.events) + 2
    /\ r2.events[n - 1].type = "tool_call"
    /\ r2.events[n - 1].payload.tool = OrElse(step.params.tool, "")
    /\ r2.events[n - 1].payload.action = OrElse(step.params.action, "")
    /\ r2.events[n - 1].payload.args = OrElse(step.params.args, NoArgs)
    /\ r2.events[n].type = "tool_result"
    /\ r2.events[n].payload.tool = OrElse(step.params.tool, "")
    /\ r2.history = r.history
    /\ r2.runs[1].pc = "loop"
    /\ r2.runs[1].exc = None

\* C32: in the synchronous executor as in the interactive one, a tool_call
\* step invokes the named tool directly and appends one tool_call and one
\* tool_result event before the next step begins; the history is unchanged.
C32_DirectToolCallEmitsBothEvents ==
    [][AtDirectToolCall /\ runner' # runner
          => DirectCallDone(runner, runner', CurStep(runner, 1))]_vars

\* the same for the interactive executor alone, when the tool returns (an
\* argument the tool cannot hash makes invoke raise)
AsyncDirectToolCallEmitsBothEvents ==
    [][AtDirectToolCall /\ runner' # runner /\ runner.kind = "AsyncRunner"
          /\ OrElse(CurStep(runner, 1).params.args, NoArgs).order_id
                # Some(ListV("ORD123"))
       => DirectCallDone(runner, runner', CurStep(runner, 1))]_vars

----------------------------------------------------------------------------
(* LlmPromptAgent: the function names published to the model and parsed from
   its answers.  A name is the sequence of its characters. *)

Chars == {"a", "_"}

NamesUpTo(n) == UNION {[1..k -> Chars] : k \in 1..n}

\* "__" in name
HasSeparator(name) ==
    \E i \in 1..(Len(name) - 1) : name[i] = "_" /\ name[i + 1] = "_"

\* _build_tools: f"{tool['name']}__{action['name']}"
build_tools(tool, action) == tool \o <<"_", "_">> \o action

\* full_name.split("__", 1) when "__" is in full_name: cut at its first
\* occurrence
split_first(full_name) ==
    LET i == CHOOSE i \in 1..(Len(full_name) - 1) :
                /\ full_name[i] = "_" /\ full_name[i + 1] = "_"
                /\ \A j \in 1..(i - 1) :
                      ~(full_name[j] = "_" /\ full_name[j + 1] = "_")
    IN <<SubSeq(full_name, 1, i - 1), SubSeq(full_name, i + 2, Len(full_name))>>

\* full_name.rsplit("_", 1): the parts, one part when there is no "_"
rsplit_underscore(full_name) ==
    IF \E i \in 1..Len(full_name) : full_name[i] = "_"
    THEN LET i == CHOOSE i \in 1..Len(full_name) :
                     /\ full_name[i] = "_"
                     /\ \A j \in (i + 1)..Len(full_name) : full_name[j] # "_"
         IN <<SubSeq(full_name, 1, i - 1), SubSeq(full_name, i + 1, Len(full_name))>>
    ELSE <<full_name>>

\* _parse_response: (tool_name, tool_action) of the function the model calls
parse_response(full_name) ==
    IF HasSeparator(full_name) THEN split_first(full_name)
    ELSE LET parts == rsplit_underscore(full_name) IN
         IF Len(parts) = 2 THEN parts ELSE <<full_name, <<"i", "n", "v", "o", "k", "e">>>>

InitNames ==
    /\ runner = NewExecutor("AsyncRunner", Module("empty", <<>>, NoBranches), BaseAgent)
    /\ sessions = NoSessions
    /\ loop = None
    /\ last_call \in {Some([op |-> "tool", tool |-> t, action |-> a]) :
                         t \in {n \in NamesUpTo(MaxNameLen) : ~HasSeparator(n)},
                         a \in NamesUpTo(MaxNameLen)}

\* the agent publishes the action of the tool to the model
BuildTools ==
    /\ last_call[1].op = "tool"
    /\ last_call' = Some([op |-> "build_tools", tool |-> last_call[1].tool,
                          action |-> last_call[1].action,
                          name |-> build_tools(last_call[1].tool,
                                               last_call[1].action)])
    /\ UNCHANGED <<runner, sessions, loop>>

\* the model calls the function by the name it was given
ParseResponse ==
    /\ last_call[1].op = "build_tools"
    /\ last_call' = Some([op |-> "parse_response", tool |-> last_call[1].tool,
                          action |-> last_call[1].action,
                          name |-> last_call[1].name,
                          parsed |-> parse_response(last_call[1].name)])
    /\ UNCHANGED <<runner, sessions, loop>>

NextNames == BuildTools \/ ParseResponse

SpecNames == InitNames /\ [][NextNames]_vars

Parsed == last_call # None /\ last_call[1].op = "parse_response"

\* C33: for every tool name without "__" and every action name, the name
\* <tool>__<action> published to the agent is parsed back into the same
\* (tool, action) pair.
C33_FunctionNameRoundTrip ==
    Parsed => last_call[1].parsed = <<last_call[1].tool, last_call[1].action>>

\* the round trip of the tool names that do not end with "_"
RoundTripUnlessToolEndsWithUnderscore ==
    Parsed /\ last_call[1].tool[Len(last_call[1].tool)] # "_"
       => last_call[1].parsed = <<last_call[1].tool, last_call[1].action>>

----------------------------------------------------------------------------
(* the synchronous Runner when the agent stops *)

\* this step of the Runner is a turn of the agent that answered `stop`
RunnerStopTurn ==
    /\ runner.kind = "Runner" /\ Called
    /\ runner'.runs[1].turns = Append(runner.runs[1].turns, "stop")

\* run() of the Runner has returned or raised
RunnerOver == runner.kind = "Runner" /\ Finished

\* C34: in the synchronous Runner, once the agent returns `stop` during an
\* await_agent step, the module's execution ends: no later step is executed,
\* no event is recorded after that point, and run() returns a RunResult with
\* the events so far and the evaluation.
C34_StopEndsTheRun ==
    [][/\ RunnerStopTurn =>
            /\ runner'.events = runner.events
            /\ runner'.history = runner.history
            /\ runner'.runs[1].executed = runner.runs[1].executed
            /\ runner'.runs[1].pc = "done"
            /\ runner'.runs[1].result =
                  Some([module_id |-> runner.module.id,
                        events |-> runner.events,
                        evaluation |-> Runner_evaluate(runner)])
       /\ RunnerOver => runner' = runner]_vars

\* the agent of the Runner stopped in step s2 of the chat module after a tool
\* call: run() has returned with the three events so far, s3 and s4 were not
\* executed
C34_Witness ==
    /\ runner.kind = "Runner" /\ Called
    /\ runner.module.id = "chat"
    /\ runner.runs[1].turns = <<"tool_call", "stop">>
    /\ runner.runs[1].pc = "done"
    /\ runner.runs[1].executed = <<"s1", "s2">>
    /\ runner.runs[1].result # None
    /\ Len(runner.runs[1].result[1].events) = 3

----------------------------------------------------------------------------
(* the event log *)

\* the evaluation the run has produced, if it has produced one: that of the
\* RunResult, or that of the `completed` event
EvaluationOf(r) ==
    IF r.runs = <<>> THEN None
    ELSE IF r.kind = "Runner"
    THEN IF r.runs[1].result # None
         THEN Some(r.runs[1].result[1].evaluation) ELSE None
    ELSE LET out == r.runs[1].out IN
         IF out # <<>> /\ out[Len(out)].type = "completed"
         THEN Some(out[Len(out)].payload.evaluation) ELSE None

\* C35: in both executors the event log is append-only: every step leaves
\* the events recorded so far unchanged and in place; and num_events of the
\* evaluation is the number of events recorded when the evaluation runs.
C35_EventLogAppendOnly ==
    [][/\ IsPrefix(runner.events, runner'.events)
       /\ EvaluationOf(runner') # None =>
             EvaluationOf(runner')[1].num_events = Len(runner'.events)]_vars

\* an interactive run has completed with four events recorded
C35_Witness ==
    /\ runner.kind = "AsyncRunner"
    /\ EvaluationOf(runner) # None
    /\ EvaluationOf(runner)[1].num_events = 4
    /\ Len(runner.events) = 4

----------------------------------------------------------------------------
(* provide_input while the interactive executor awaits the user *)

\* the executor is in state awaiting_user and its current await_user step has
\* accepted no input yet: the step has yielded `awaiting_input`, or it awaits
\* its future and no provide_input has resolved it
AwaitingFirstInput ==
    /\ runner.kind = "AsyncRunner" /\ Called
    /\ runner.state = "awaiting_user"
    /\ \/ Pc(1) = "await_yielded"
       \/ Pc(1) = "await_wait" /\ runner.runs[1].accepted = 0

\* this step is a call of provide_input
ProvideInputCalled ==
    /\ last_call' # last_call
    /\ last_call'[1].op = "provide_input"

\* C36: whenever the interactive executor's state is awaiting_user and no
\* input has been accepted for the current await_user step, provide_input
\* succeeds; in particular when the consumer calls it right after it has
\* received the awaiting_input event.
C36_ProvideInputSucceedsWhileAwaitingUser ==
    [][AwaitingFirstInput /\ ProvideInputCalled
          => last_call'[1].raised = None]_vars

\* provide_input succeeds once the step has created its future and the future
\* is still pending
ProvideInputSucceedsOnPendingFuture ==
    [][/\ AwaitingFirstInput /\ ProvideInputCalled
       /\ Pc(1) = "await_wait" /\ runner.runs[1].fut = "pending"
       => last_call'[1].raised = None]_vars

----------------------------------------------------------------------------
(* termination of Runner.run *)

\* a module one of whose branches ends with a branch to itself
CycleModule ==
    Module("cycle",
           <<InjectUser("s1", "hi"), Branch("s2", "again")>>,
           [n \in {"again"} |-> <<InjectUser("a1", "once more"),
                                  Branch("a2", "again")>>])

\* modules with agent steps, with branches that contain branch steps, with a
\* branch step that names no branch, and the module with the cycle
RunnerModules ==
    {m \in Modules : m.id \in {"chat", "branching", "unknown_branch"}}
    \cup {CycleModule}

\* the Runner with the agents whose step always returns and whose tool calls
\* return
InitRunnerLive ==
    /\ runner \in {NewExecutor("Runner", m, ScriptedAgent("none", script, l)) :
                      m \in RunnerModules,
                      script \in [1..MaxAgentChoices ->
                                     AgentTurns("none") \ {StepRaises("none")}],
                      l \in 1..MaxAgentChoices}
    /\ sessions = NoSessions
    /\ loop = None
    /\ last_call = None

\* one iteration of the while loop of Runner.run, for the runs that have
\* begun fewer than MaxExecuted steps
RunnerLoop ==
    /\ runner.kind = "Runner" /\ Pc(1) = "loop"
    /\ Len(runner.runs[1].executed) < MaxExecuted
    /\ runner' = Runner_run(runner, 1)
    /\ UNCHANGED <<sessions, loop, last_call>>

NextRunnerLive ==
    \/ CallRun
    \/ RunnerLoop
    \/ RunnerAgentTurn

\* run() is called, and the Runner is one thread that runs on as long as it
\* can
SpecRunnerLive ==
    InitRunnerLive /\ [][NextRunnerLive]_vars /\ WF_vars(NextRunnerLive)

\* run() has returned a RunResult
RunnerReturned ==
    Called /\ runner.runs[1].pc = "done" /\ runner.runs[1].result # None

RunnerTerminatesWithoutBranchCycle ==
    runner.module.id # "cycle" => <>RunnerReturned

----------------------------------------------------------------------------
(* sessions that have ended *)

\* the executor of session id has completed or has failed
Ended(ss, id) == ss[id].runner.state \in {"completed", "error"}

\* C38: once a session's state is completed or error it never changes again,
\* and no further event is produced for the session, whatever operations of
\* the session manager follow (start, provide_input, inject_event, pause,
\* resume).
C38_EndedSessionStaysEnded ==
    [][\A id \in DOMAIN sessions :
          Ended(sessions, id) =>
             /\ sessions'[id].runner.state = sessions[id].runner.state
             /\ sessions'[id].events = sessions[id].events
             /\ sessions'[id].runner.events = sessions[id].runner.events]_vars

\* an ended session that is not started again stays as it ended, whatever
\* provide_input, inject_event, pause and resume are called on it
EndedSessionStaysEndedUnlessStarted ==
    [][\A id \in DOMAIN sessions :
          /\ Ended(sessions, id)
          /\ Len(sessions'[id].runner.runs) = Len(sessions[id].runner.runs)
          /\ \A g \in 1..Len(sessions[id].runner.runs) :
                TaskDone(sessions[id].runner, g)
          => /\ sessions'[id].runner.state = sessions[id].runner.state
             /\ sessions'[id].events = sessions[id].events
             /\ sessions'[id].runner.events = sessions[id].runner.events]_vars

----------------------------------------------------------------------------
(* the ids of the tool calls in the history *)

\* the positions of the assistant messages of the history that carry a tool
\* call
ToolCallMessages(history) ==
    {i \in 1..Len(history) :
        history[i].role = "assistant" /\ history[i].tool_calls # None}

\* the id of the tool call of message i
ToolCallIdAt(history, i) == history[i].tool_calls[1][1].id

\* C39: within one run the tool_call ids the executor generates itself,
\* call_<tool>_<action>_<number of events so far>, are pairwise distinct: no
\* two assistant tool-call messages of the history share an id, also when the
\* agent repeats the same tool and action.
C39_GeneratedToolCallIdsDistinct ==
    Called /\ (runner.kind = "Runner" \/ runner.agent.id_mode # "supplied") =>
        \A i, j \in ToolCallMessages(runner.history) :
           i # j => ToolCallIdAt(runner.history, i) # ToolCallIdAt(runner.history, j)

\* the agent has called the same action of the same tool three times and the
\* executor has made the three ids
C39_Witness ==
    /\ Called /\ (runner.kind = "Runner" \/ runner.agent.id_mode # "supplied")
    /\ \E i, j, k \in ToolCallMessages(runner.history) :
          /\ i < j /\ j < k
          /\ runner.history[i].tool_calls[1][1].name
                = runner.history[j].tool_calls[1][1].name
          /\ runner.history[j].tool_calls[1][1].name
                = runner.history[k].tool_calls[1][1].name
          /\ runner.history[i].tool_calls[1][1].arguments
                = runner.history[k].tool_calls[1][1].arguments

----------------------------------------------------------------------------
(* one MockShopifyTool instance under any sequence of invocations *)

\* initial_orders of a tool config: two orders
ConfigOrders ==
    [o \in {"ORD123", "ORD456"} |-> Order(o, FALSE, IF o = "ORD123" THEN 100 ELSE 30)]

\* the environments the tool is constructed in: with and without a
\* cash_balance, with and without orders of its own config
ToolEnvironments ==
    {Environment(cash, None, orders) :
        cash \in {None, Some(500), Some(50)},
        orders \in {None, Some(StoreOrders), Some(ConfigOrders)}}

\* what callers invoke the tool with
ToolActions == {"get_order", "refund_order", "cancel_order"}
ToolArgs ==
    {NoArgs} \cup {Args(StrV(o)) : o \in {"ORD123", "ORD456", "ORD999"}}
    \cup {Args(ListV("ORD123"))}

InitTool ==
    /\ runner \in {NewExecutor("Runner",
                      ModuleIn(e, {"shopify"}, "shop", <<>>, NoBranches), BaseAgent) :
                      e \in ToolEnvironments}
    /\ sessions = NoSessions
    /\ loop = None
    /\ last_call = None

\* tool.invoke(action, args, env_state)
InvokeTool ==
    \E action \in ToolActions, args \in ToolArgs :
       LET o == invoke(runner, "shopify", action, args) IN
       /\ runner' = o.r
       /\ last_call' = Some([op |-> "invoke", action |-> action, args |-> args,
                             raised |-> o.raised, value |-> o.value])
       /\ UNCHANGED <<sessions, loop>>

NextTool == InvokeTool

SpecTool == InitTool /\ [][NextTool]_vars

\* the invocation just made was refund_order of the order id, which existed
RefundOf(id) ==
    /\ last_call' # None /\ last_call'[1].op = "invoke"
    /\ last_call'[1].action = "refund_order"
    /\ last_call'[1].args = Args(StrV(id))
    /\ id \in DOMAIN Orders(runner)

\* C40: on one mock_shopify instance refund_order succeeds at most once per
\* order: the first refund of an existing order marks it refunded and takes
\* the order total from env_state.cash_balance; every later refund of the
\* order fails with 'already refunded' and leaves env_state and the order
\* unchanged; no invocation makes a refunded order refundable again.
C40_RefundAtMostOnce ==
    [][\A id \in {"ORD123", "ORD456"} :
        /\ id \in DOMAIN Orders(runner) /\ Orders(runner)[id].refunded
              => Orders(runner')[id] = Orders(runner)[id]
        /\ RefundOf(id) /\ ~Orders(runner)[id].refunded
              => /\ ~last_call'[1].raised
                 /\ last_call'[1].value[1].success
                 /\ Orders(runner')[id].refunded
                 /\ runner.env_state.cash_balance # None
                       => runner'.env_state.cash_balance =
                             Some(runner.env_state.cash_balance[1]
                                     - Orders(runner)[id].total)
        /\ RefundOf(id) /\ Orders(runner)[id].refunded
              => /\ ~last_call'[1].raised
                 /\ ~last_call'[1].value[1].success
                 /\ last_call'[1].value[1].error = Some(<<"Order already refunded">>)
                 /\ runner'.env_state = runner.env_state
                 /\ Orders(runner') = Orders(runner)]_vars

\* the second refund of ORD123 has just failed, 100 having been taken from
\* the cash balance of 500 by the first
C40_Witness ==
    /\ last_call # None /\ last_call[1].op = "invoke"
    /\ last_call[1].action = "refund_order"
    /\ last_call[1].args = Args(StrV("ORD123"))
    /\ ~last_call[1].raised
    /\ last_call[1].value[1].error = Some(<<"Order already refunded">>)
    /\ Orders(runner)["ORD123"].refunded
    /\ runner.env_state.cash_balance = Some(400)
====
